---- MODULE Spec2Model ----
(***************************************************************************)
(* T4KA3 camera sensor driver: the batched register-write protocol         *)
(* (t4ka3_write_reg_array and its helpers) and the streaming state machine *)
(* (t4ka3_s_stream), modelled from drivers/staging/media/atomisp/i2c.      *)
(***************************************************************************)
EXTENDS Integers, Sequences, FiniteSets, TLC

VARIABLES
    \* ---- t4ka3_write_reg_array: one call over one register program ----
    reglist,    \* the register program, its T4KA3_TOK_TERM entry included
    next,       \* position of the `next' pointer in reglist (1-based)
    ctrl,       \* struct t4ka3_write_ctrl: index, buffer.addr, buffer.data
    wire,       \* what the call did on the bus so far: transfers and sleeps
    err,        \* the value t4ka3_write_reg_array returned (once wpc = "done")
    wpc,        \* position inside t4ka3_write_reg_array ("off": not running)
    \* ---- the sensor instance and t4ka3_s_stream ----
    revision,   \* which revision of the driver is built
    streaming,  \* t4ka3_device.streaming
    input_lock, \* t4ka3_device.input_lock: "free" or "held"
    usage_count,\* runtime-PM usage counter of the device
    rpm_status, \* runtime-PM status of the device: "active" or "suspended"
    pc,         \* position of the caller inside t4ka3_s_stream ("idle": outside)
    enable,     \* argument of the running (or last) t4ka3_s_stream call
    ret,        \* local variable `ret' of the running call
    ci,         \* position of __v4l2_ctrl_handler_setup in the control list
    entry,      \* sensor state when the running (or last) call was entered
                \* (height: that of sensor->res and sensor->format)
    trace,      \* what the running (or last) call did, in order
    retval      \* value the last finished call returned

VARIABLES
    \* ---- one call of t4ka3_read_reg or t4ka3_write_reg ----
    rop,        \* which of the two is called: "read" or "write" ("none": neither)
    rlen,       \* its len / data_length argument
    retry_cnt,  \* local variable `retry_cnt'
    rerr,       \* local variable `err' (read) / `ret' (write)
    rtries,     \* what each i2c_transfer of the call returned, in order
    rret,       \* the value the call returned (once rpc = "done")
    rpc         \* position inside the call ("off": not running)

VARIABLES
    \* ---- the exposure state and one call of t4ka3_set_exposure ----
    fll,         \* frame-length-lines register (0x0340) as last written
    coarse_itg,  \* t4ka3_device.coarse_itg
    gain,        \* t4ka3_device.gain
    digital_gain,\* t4ka3_device.digital_gain
    eargs,       \* arguments of the running (or last) call (ioctl: the request
                 \* of a call that came through t4ka3_s_exposure)
    elocal,      \* its locals coarse_itg, gain, lines_per_frame after clamping
    ewrites,     \* the register writes it issued, in order, with their results
    eentry,      \* exposure state when the call was entered
    eret,        \* its local `ret', returned at the end
    epc          \* position inside the call ("off": not running)

VARIABLES
    \* ---- flip controls, the active format and calls that change them ----
    ctrls,       \* vflip and hflip controls: val (ctrl->val) and cur (ctrl->cur.val)
    flip,        \* t4ka3_device.flip
    format,      \* t4ka3_device.format: height and code
    bayer_in,    \* the (vflip, hflip) values format.code was last computed from
    vblank,      \* current value of the vblank control
    pad_fmt,     \* a running t4ka3_set_pad_format's own format, filled before it locks
    pad_pc       \* position inside t4ka3_set_pad_format ("idle": not running)

VARIABLES
    \* ---- mode selection and set format of the recovery revision ----
    mreq,        \* the running set-format request: which, width, height, hostdata
    mfmt,        \* the caller's format (fmt->format) as the call rewrites it
    mformat,     \* t4ka3_device.format: width and height
    fmt_idx,     \* t4ka3_device.fmt_idx
    mdist,       \* what nearest_resolution_index last returned
    mret,        \* value the last finished set-format call returned
    mpc          \* position inside t4ka3_set_pad_format ("idle": not running)

VARIABLES
    \* ---- t4ka3_init of the recovery revision, run by another thread ----
    ipc,         \* position inside t4ka3_init ("idle": not running)
    iwrites      \* transfers of t4ka3_init_config the running call has made

VARIABLES
    \* ---- control values of the staged revision and what reached the sensor ----
    exposure,     \* the exposure control: its value and its maximum
    test_pattern, \* value of the test pattern control
    coarse_reg,   \* last value written to T4KA3_REG_COARSE_INTEGRATION_TIME by a
                  \* control handler or a finished t4ka3_set_exposure call
    creq,         \* the running control set request: id, value, old value, in use
    clog,         \* what the running control set request did, values included
    cret,         \* what t4ka3_s_ctrl returned to the running request
    cpc,          \* position inside a control set request ("idle": not running)
    deferred,     \* history: "pending" once a set request found the sensor not in
                  \* use, "replayed" once __v4l2_ctrl_handler_setup went through
    allok         \* history: no t4ka3_set_exposure call or control set request has
                  \* failed so far

VARIABLES
    \* ---- the group hold of the recovery revision's sensor ----
    hold_open,   \* a group-hold assert (t4ka3_param_hold) went through and no
                 \* group-hold release (t4ka3_param_update) was written since
    \* ---- the range of the vblank control ----
    vblank_max,  \* maximum of the vblank control
    \* ---- drivers/input/touchscreen.c ----
    absinfo,     \* input->absinfo of the x and the y axis: minimum, maximum
    prop,        \* struct touchscreen_properties
    ts_orig,     \* the axes' minimum and maximum as configured, before the
                 \* inversion and swap adjustments of the parse call
    ts_pos,      \* the last position reported or stored, with its raw input
    \* ---- drivers/leds/leds-tps68470.c ----
    brightness_a, \* tps68470_led_data.brightness_a
    brightness_b, \* tps68470_led_data.brightness_b
    led_set,      \* the last tps68470_brightness_set call and what it found
    led_get       \* the last tps68470_brightness_get call and what it returned

hvars == <<hold_open, vblank_max>>
tvars == <<absinfo, prop, ts_orig, ts_pos>>
lvars == <<brightness_a, brightness_b, led_set, led_get>>
ovars == <<tvars, lvars>>
mvars == <<mreq, mfmt, mformat, fmt_idx, mdist, mret, mpc>>
cvars == <<exposure, test_pattern, coarse_reg, creq, clog, cret, cpc, deferred,
           allok>>
kvars == <<ipc, iwrites>>
rvars == <<rop, rlen, retry_cnt, rerr, rtries, rret, rpc>>
dvars == <<ctrls, flip, format, bayer_in, vblank, pad_fmt, pad_pc>>
evars == <<fll, coarse_itg, gain, digital_gain, eargs, elocal, ewrites, eentry,
           eret, epc>>
xvars == <<rvars, evars, dvars, mvars, kvars, hvars, ovars, cvars>>
wvars == <<reglist, next, ctrl, wire, err, wpc>>
svars == <<revision, streaming, input_lock, usage_count, rpm_status, pc, enable,
           ret, ci, entry, trace, retval>>
vars == <<wvars, svars, xvars>>

(***************************************************************************)
(* Constants of t4ka3.h and errno values.                                  *)
(***************************************************************************)
T4KA3_8BIT == 1
T4KA3_16BIT == 2
T4KA3_TOK_TERM == 61440
T4KA3_TOK_DELAY == 65024
T4KA3_TOK_MASK == 65520
T4KA3_MAX_WRITE_BUF_SIZE == 30
EIO == 5
EAGAIN == 11
ENODEV == 19
EINVAL == 22

(***************************************************************************)
(* Bounds of the checked register programs.                                *)
(***************************************************************************)
MaxRun == 15        \* longest run of same-width writes in a program
BaseAddr == 240     \* address of the first write (0x00F0: runs cross 0x0100)
GapSkip == 3        \* registers skipped by an address gap
DelayMs == 5        \* duration of a delay entry

\* C's `a & b' on non-negative integers.
RECURSIVE BitAnd(_, _)
BitAnd(a, b) ==
    IF a = 0 \/ b = 0 THEN 0
    ELSE (a % 2) * (b % 2) + 2 * BitAnd(a \div 2, b \div 2)

\* The two bytes of a 16-bit quantity in memory after cpu_to_be16: high first.
Hi(v) == (v \div 256) % 256
Lo(v) == v % 256
\* cpu_to_be16 on the little-endian host, as the value of the u16 afterwards.
cpu_to_be16(v) == Lo(v) * 256 + Hi(v)

\* buffer.data is u8[T4KA3_MAX_WRITE_BUF_SIZE]; -1 marks a byte never stored
\* (t4ka3_write_reg_array leaves ctrl.buffer uninitialised).
Indeterminate == 0 - 1
ctrl_init ==
    [index |-> 0, addr |-> Indeterminate,
     data |-> [i \in 1..T4KA3_MAX_WRITE_BUF_SIZE |-> Indeterminate]]

\* i2c_transfer of one message of `size' bytes starting at &ctrl->buffer.
\* On the wire the address field goes out in memory order, then data[0..].
BufferBytes(c, size) ==
    [i \in 1..size |->
        IF i = 1 THEN c.addr % 256
        ELSE IF i = 2 THEN (c.addr \div 256) % 256
        ELSE c.data[i - 2]]

\* t4ka3_i2c_write: one transfer; 0 when it went through, -EIO otherwise.
t4ka3_i2c_write(bytes, ok) ==
    [sent |-> <<[kind |-> "xfer", bytes |-> bytes, ok |-> ok]>>,
     ret |-> IF ok THEN 0 ELSE 0 - EIO]

\* Mutant: the result of the transfer is dropped.
t4ka3_flush_reg_array_noerr(c, ok) ==
    IF c.index = 0 THEN [ctrl |-> c, sent |-> <<>>, ret |-> 0]
    ELSE LET size == 2 + c.index
             swapped == [c EXCEPT !.addr = cpu_to_be16(c.addr)]
             w == t4ka3_i2c_write(BufferBytes(swapped, size), ok)
         IN  [ctrl |-> [swapped EXCEPT !.index = 0], sent |-> w.sent, ret |-> 0]

\* __t4ka3_flush_reg_array: nothing when the buffer is empty, else one
\* transfer of the 16-bit address and the index data bytes; index reset first.
t4ka3_flush_reg_array(c, ok) ==
    IF c.index = 0 THEN [ctrl |-> c, sent |-> <<>>, ret |-> 0]
    ELSE LET size == 2 + c.index
             swapped == [c EXCEPT !.addr = cpu_to_be16(c.addr)]
             w == t4ka3_i2c_write(BufferBytes(swapped, size), ok)
         IN  [ctrl |-> [swapped EXCEPT !.index = 0], sent |-> w.sent, ret |-> w.ret]

\* __t4ka3_write_reg_is_consecutive
t4ka3_write_reg_is_consecutive(c, nxt) ==
    IF c.index = 0 THEN TRUE ELSE c.addr + c.index = nxt.sreg

\* Mutant: a 16-bit value stored without cpu_to_be16 (low byte first).
BufStore_le(c, nxt) ==
    LET size == IF nxt.type = T4KA3_8BIT THEN 1 ELSE 2
        stored ==
            IF nxt.type = T4KA3_8BIT
            THEN [c EXCEPT !.data[c.index + 1] = nxt.val % 256]
            ELSE [c EXCEPT !.data[c.index + 1] = Lo(nxt.val % 65536),
                           !.data[c.index + 2] = Hi(nxt.val % 65536)]
        based == IF c.index = 0 THEN [stored EXCEPT !.addr = nxt.sreg] ELSE stored
    IN  IF nxt.type \notin {T4KA3_8BIT, T4KA3_16BIT}
        THEN [ctrl |-> c, ret |-> 0 - EINVAL]
        ELSE [ctrl |-> [based EXCEPT !.index = c.index + size], ret |-> 0]

\* __t4ka3_buf_reg_array, first half: store the value, remember the start
\* address of an empty buffer, advance index.  ret = -EINVAL on another type.
BufStore(c, nxt) ==
    LET size == IF nxt.type = T4KA3_8BIT THEN 1 ELSE 2
        stored ==
            IF nxt.type = T4KA3_8BIT
            THEN [c EXCEPT !.data[c.index + 1] = nxt.val % 256]
            ELSE [c EXCEPT !.data[c.index + 1] = Hi(nxt.val % 65536),
                           !.data[c.index + 2] = Lo(nxt.val % 65536)]
        based == IF c.index = 0 THEN [stored EXCEPT !.addr = nxt.sreg] ELSE stored
    IN  IF nxt.type \notin {T4KA3_8BIT, T4KA3_16BIT}
        THEN [ctrl |-> c, ret |-> 0 - EINVAL]
        ELSE [ctrl |-> [based EXCEPT !.index = c.index + size], ret |-> 0]

\* Mutants: room kept for a u32 instead of a u16; `>' instead of `>='.
BufMustFlush_u32(c) == c.index + 4 >= T4KA3_MAX_WRITE_BUF_SIZE
BufMustFlush_gt(c) == c.index + 2 > T4KA3_MAX_WRITE_BUF_SIZE

\* __t4ka3_buf_reg_array, second half: the flush-when-nearly-full test.
BufMustFlush(c) == c.index + 2 >= T4KA3_MAX_WRITE_BUF_SIZE

(***************************************************************************)
(* The register programs checked: a run of n1 writes of width w1, a         *)
(* separator, a run of n2 writes of width w2, the terminator.  Values carry *)
(* the entry's number in both bytes so that no two stored bytes agree.      *)
(***************************************************************************)
Separators == {"contig", "gap", "back", "delay", "delaygap"}

RegVal(i) == 256 * i + 128 + i

Run(w, n, start, first) ==
    [i \in 1..n |-> [type |-> w, sreg |-> start + (i - 1) * w, val |-> RegVal(first + i - 1)]]

Program(w1, n1, sep, w2, n2) ==
    LET end1 == BaseAddr + n1 * w1
        start2 == CASE sep = "contig" -> end1
                    [] sep = "delay" -> end1
                    [] sep = "gap" -> end1 + GapSkip
                    [] sep = "delaygap" -> end1 + GapSkip
                    [] sep = "back" -> BaseAddr
        delay == IF sep \in {"delay", "delaygap"}
                 THEN <<[type |-> T4KA3_TOK_DELAY, sreg |-> 0, val |-> DelayMs]>>
                 ELSE <<>>
    IN  Run(w1, n1, BaseAddr, 1) \o delay \o Run(w2, n2, start2, n1 + 1)
        \o <<[type |-> T4KA3_TOK_TERM, sreg |-> 0, val |-> 0]>>

Programs ==
    {Program(w1, n1, sep, w2, n2) :
        w1 \in {T4KA3_8BIT, T4KA3_16BIT}, n1 \in 0..MaxRun, sep \in Separators,
        w2 \in {T4KA3_8BIT, T4KA3_16BIT}, n2 \in 0..MaxRun}

(***************************************************************************)
(* t4ka3_write_reg_array, one action per step of its loop.                  *)
(***************************************************************************)
WraStart ==
    /\ reglist \in Programs
    /\ next = 1
    /\ ctrl = ctrl_init
    /\ wire = <<>>
    /\ err = 0
    /\ wpc = "loop"

WraReturn(c, sent, r) ==
    /\ ctrl' = c
    /\ wire' = wire \o sent
    /\ err' = r
    /\ wpc' = "done"
    /\ UNCHANGED <<reglist, next>>
    /\ UNCHANGED <<svars, xvars>>

\* case T4KA3_TOK_DELAY with the flush left out.
WraDelay_noflush ==
    /\ wpc = "loop"
    /\ reglist[next].type # T4KA3_TOK_TERM
    /\ BitAnd(reglist[next].type, T4KA3_TOK_MASK) = T4KA3_TOK_DELAY
    /\ wire' = wire \o <<[kind |-> "sleep", ms |-> reglist[next].val]>>
    /\ next' = next + 1
    /\ UNCHANGED <<reglist, ctrl, err, wpc>>
    /\ UNCHANGED <<svars, xvars>>

\* case T4KA3_TOK_DELAY: flush, then msleep(next->val).
WraDelay ==
    /\ wpc = "loop"
    /\ reglist[next].type # T4KA3_TOK_TERM
    /\ BitAnd(reglist[next].type, T4KA3_TOK_MASK) = T4KA3_TOK_DELAY
    /\ \E ok \in BOOLEAN :
        LET f == t4ka3_flush_reg_array(ctrl, ok)
        IN  IF f.ret # 0 THEN WraReturn(f.ctrl, f.sent, f.ret)
            ELSE /\ ctrl' = f.ctrl
                 /\ wire' = wire \o f.sent \o <<[kind |-> "sleep", ms |-> reglist[next].val]>>
                 /\ next' = next + 1
                 /\ UNCHANGED <<reglist, err, wpc>>
                 /\ UNCHANGED <<svars, xvars>>

\* default: flush first when the next address is not consecutive.
WraGapFlush ==
    /\ wpc = "loop"
    /\ reglist[next].type # T4KA3_TOK_TERM
    /\ BitAnd(reglist[next].type, T4KA3_TOK_MASK) # T4KA3_TOK_DELAY
    /\ \E ok \in BOOLEAN :
        LET f == IF t4ka3_write_reg_is_consecutive(ctrl, reglist[next])
                 THEN [ctrl |-> ctrl, sent |-> <<>>, ret |-> 0]
                 ELSE t4ka3_flush_reg_array(ctrl, ok)
        IN  IF f.ret # 0 THEN WraReturn(f.ctrl, f.sent, f.ret)
            ELSE /\ ctrl' = f.ctrl
                 /\ wire' = wire \o f.sent
                 /\ wpc' = "buf"
                 /\ UNCHANGED <<reglist, next, err>>
                 /\ UNCHANGED <<svars, xvars>>

\* __t4ka3_buf_reg_array up to `ctrl->index += size'.
WraBufStore ==
    /\ wpc = "buf"
    /\ LET b == BufStore(ctrl, reglist[next])
       IN  IF b.ret # 0 THEN WraReturn(b.ctrl, <<>>, b.ret)
           ELSE /\ ctrl' = b.ctrl
                /\ wpc' = "full"
                /\ UNCHANGED <<reglist, next, wire, err>>
                /\ UNCHANGED <<svars, xvars>>

\* __t4ka3_buf_reg_array from the nearly-full test on, then next++.
WraBufFull ==
    /\ wpc = "full"
    /\ \E ok \in BOOLEAN :
        LET f == IF BufMustFlush(ctrl)
                 THEN t4ka3_flush_reg_array(ctrl, ok)
                 ELSE [ctrl |-> ctrl, sent |-> <<>>, ret |-> 0]
        IN  IF f.ret # 0 THEN WraReturn(f.ctrl, f.sent, f.ret)
            ELSE /\ ctrl' = f.ctrl
                 /\ wire' = wire \o f.sent
                 /\ next' = next + 1
                 /\ wpc' = "loop"
                 /\ UNCHANGED <<reglist, err>>
                 /\ UNCHANGED <<svars, xvars>>

\* next->type == T4KA3_TOK_TERM: return __t4ka3_flush_reg_array(client, &ctrl).
WraTerm ==
    /\ wpc = "loop"
    /\ reglist[next].type = T4KA3_TOK_TERM
    /\ \E ok \in BOOLEAN :
        LET f == t4ka3_flush_reg_array(ctrl, ok)
        IN  WraReturn(f.ctrl, f.sent, f.ret)

WraNext == WraDelay \/ WraGapFlush \/ WraBufStore \/ WraBufFull \/ WraTerm

WraIdle ==
    /\ reglist = <<>>
    /\ next = 1
    /\ ctrl = ctrl_init
    /\ wire = <<>>
    /\ err = 0
    /\ wpc = "off"

(***************************************************************************)
(* The sensor instance.  Two revisions of t4ka3_s_stream are modelled:      *)
(* "staged" programs the sensor step by step inside stream-enable,          *)
(* "recovery" detects the sensor and runs t4ka3_recovery when that fails.   *)
(***************************************************************************)
Revisions == {"staged", "recovery"}

EBUSY == 16

\* Upper bound on the runtime-PM usage counter (references can leak).
MaxUsage == 2

\* What an `int ret;' that was never assigned may hold when it is returned.
IndeterminateInts == {0 - EINVAL, 0, 1}

\* The register programs t4ka3_s_stream names (t4ka3.h); the long tables
\* t4ka3_init_config and the per-mode tables are referred to by name only.
t4ka3_suspend ==
    <<[type |-> T4KA3_8BIT, sreg |-> 256, val |-> 0],
      [type |-> T4KA3_TOK_TERM, sreg |-> 0, val |-> 0]>>
t4ka3_streaming ==
    <<[type |-> T4KA3_8BIT, sreg |-> 256, val |-> 1],
      [type |-> T4KA3_TOK_TERM, sreg |-> 0, val |-> 0]>>
t4ka3_param_hold ==
    <<[type |-> T4KA3_8BIT, sreg |-> 260, val |-> 1],
      [type |-> T4KA3_TOK_TERM, sreg |-> 0, val |-> 0]>>
t4ka3_param_update ==
    <<[type |-> T4KA3_8BIT, sreg |-> 260, val |-> 0],
      [type |-> T4KA3_TOK_TERM, sreg |-> 0, val |-> 0]>>

T4KA3_REG_IMG_ORIENTATION == 257
T4KA3_REG_COARSE_INTEGRATION_TIME == 514
T4KA3_REG_FRAME_LENGTH_LINES == 832
T4KA3_REG_TEST_PATTERN_MODE == 1537

\* One thing a call did: the function doing it, what, on what, the result.
Ev(fn, ev, arg, r) == [fn |-> fn, ev |-> ev, arg |-> arg, ret |-> r]

\* pm_runtime_get_sync: takes a reference whatever happens; 1 when the device
\* was active already, 0 when t4ka3_pm_resume brought it up, its error else.
pm_runtime_get_sync(u, st, resumed) ==
    [usage |-> u + 1,
     status |-> IF st = "active" \/ resumed THEN "active" ELSE "suspended",
     ret |-> IF st = "active" THEN 1 ELSE IF resumed THEN 0 ELSE 0 - ENODEV]

\* pm_runtime_put: drops a reference (never below zero); when the count
\* reaches zero an idle request is queued, refused unless the device is
\* active.
pm_runtime_put(u, st) ==
    IF u = 0 THEN [usage |-> 0, ret |-> 0 - EINVAL]
    ELSE [usage |-> u - 1,
          ret |-> IF u - 1 > 0 \/ st = "active" THEN 0 ELSE 0 - EAGAIN]

\* pm_runtime_get_if_in_use: a reference only if one is held and the device
\* is active.
pm_runtime_get_if_in_use(u, st) == u > 0 /\ st = "active"

\* The controls __v4l2_ctrl_handler_setup replays, in the order
\* t4ka3_init_controls created them (link_freq is read-only: skipped).
CtrlOrder == <<"vflip", "hflip", "test_pattern", "vblank", "exposure">>

\* t4ka3_s_ctrl for control id: nothing but the Bayer order when the device
\* is not in use; else the control's register transactions, the first failing
\* one (failAt, 0 for none) ending them; the reference is put either way.
t4ka3_s_ctrl(id, in_use, strm, failAt) ==
    LET fn == "t4ka3_s_ctrl"
        rd(reg, n) == Ev(fn, "read_reg", reg, IF failAt = n THEN 0 - EIO ELSE 0)
        wr(reg, n) == Ev(fn, "write_reg", reg, IF failAt = n THEN 0 - EIO ELSE 0)
        flipop == IF strm = 1 THEN [events |-> <<>>, ret |-> 0 - EBUSY]
                ELSE IF failAt = 1
                THEN [events |-> <<rd(T4KA3_REG_IMG_ORIENTATION, 1)>>, ret |-> 0 - EIO]
                ELSE [events |-> <<rd(T4KA3_REG_IMG_ORIENTATION, 1),
                                   wr(T4KA3_REG_IMG_ORIENTATION, 2)>>,
                      ret |-> IF failAt = 2 THEN 0 - EIO ELSE 0]
        one(reg) == [events |-> <<wr(reg, 1)>>, ret |-> IF failAt = 1 THEN 0 - EIO ELSE 0]
        body == CASE id \in {"vflip", "hflip"} -> flipop
                  [] id = "test_pattern" -> one(T4KA3_REG_TEST_PATTERN_MODE)
                  [] id = "vblank" -> one(T4KA3_REG_FRAME_LENGTH_LINES)
                  [] id = "exposure" -> one(T4KA3_REG_COARSE_INTEGRATION_TIME)
    IN  IF ~in_use
        THEN [events |-> <<Ev(fn, "pm_runtime_get_if_in_use", id, 0)>>, ret |-> 0]
        ELSE [events |-> <<Ev(fn, "pm_runtime_get_if_in_use", id, 1)>> \o body.events
                         \o <<Ev(fn, "pm_runtime_put", id, 0)>>,
              ret |-> body.ret]

(***************************************************************************)
(* The flip controls and the Bayer order.  A control has the value the     *)
(* driver sees while its handler runs (ctrl->val) and the value in force   *)
(* (ctrl->cur.val); a set request stores the requested value in val, calls  *)
(* t4ka3_s_ctrl when it differs from cur, and copies val to cur when the    *)
(* handler returned 0.                                                      *)
(***************************************************************************)
T4KA3_LINES_PER_FRAME == 2492
T4KA3_RES_HEIGHT_MAX == 2464
T4KA3_MAX_VBLANK == 65535
T4KA3_HFLIP_BIT == 1
T4KA3_VFLIP_BIT == 2

\* Mutant: the second and third entries exchanged.
t4ka3_hv_flip_bayer_order_swapped == <<"GRBG", "RGGB", "BGGR", "GBRG">>

\* t4ka3_hv_flip_bayer_order[], first entry at index 0 in the source.
t4ka3_hv_flip_bayer_order == <<"GRBG", "BGGR", "RGGB", "GBRG">>

\* t4ka3_bayer_order_mapping[vflip][hflip] of the recovery revision.
t4ka3_bayer_order_mapping == <<<<"GRBG", "RGGB">>, <<"BGGR", "GBRG">>>>

\* t4ka3_set_bayer_order: hv_flip += 1 for vflip->val, += 2 for hflip->val.
t4ka3_set_bayer_order(vval, hval) ==
    LET hv_flip == (IF vval # 0 THEN 1 ELSE 0) + (IF hval # 0 THEN 2 ELSE 0)
    IN  t4ka3_hv_flip_bayer_order[hv_flip + 1]

\* Height of the mode t4ka3_set_pad_format is asked for (t4ka3_res[0]).
FormatHeights == {496}

FlipIds == {"vflip", "hflip"}
FlipBit(id) == IF id = "hflip" THEN T4KA3_HFLIP_BIT ELSE T4KA3_VFLIP_BIT

\* Mutant: the handler does not look at streaming.
CtrlResult_nobusy(id, in_use, strm, failAt) == t4ka3_s_ctrl(id, in_use, 0, failAt)

\* What one t4ka3_s_ctrl call does on the bus and returns.
CtrlResult(id, in_use, strm, failAt) == t4ka3_s_ctrl(id, in_use, strm, failAt)

\* What one t4ka3_s_ctrl call leaves in flip, format.code: the Bayer order is
\* recomputed when the device is not in use and after a flip was written.
CtrlEffect(id, c, in_use, r) ==
    LET code == t4ka3_set_bayer_order(c.vflip.val, c.hflip.val)
        ins == [vflip |-> c.vflip.val, hflip |-> c.hflip.val]
    IN  IF ~in_use
        THEN [flip |-> flip, code |-> code, bayer_in |-> ins]
        ELSE IF id \in FlipIds /\ r = 0
        THEN [flip |-> IF c[id].val # 0 THEN FlipBit(id) ELSE 0, code |-> code,
              bayer_in |-> ins]
        ELSE [flip |-> flip, code |-> format.code, bayer_in |-> bayer_in]

DevIdle ==
    /\ ctrls = [vflip |-> [val |-> 0, cur |-> 0], hflip |-> [val |-> 0, cur |-> 0]]
    /\ flip = 0
    /\ format = [height |-> 496, code |-> t4ka3_set_bayer_order(0, 0)]
    /\ bayer_in = [vflip |-> 0, hflip |-> 0]
    /\ vblank = T4KA3_LINES_PER_FRAME - T4KA3_RES_HEIGHT_MAX
    /\ pad_fmt = [height |-> 496, code |-> t4ka3_set_bayer_order(0, 0),
                  vflip |-> 0, hflip |-> 0]
    /\ pad_pc = "idle"

StreamInit ==
    /\ revision \in Revisions
    /\ streaming = 0
    /\ input_lock = "free"
    /\ usage_count = 0
    /\ rpm_status = "active"
    /\ pc = "idle"
    /\ enable = 0
    /\ ret = 0
    /\ ci = 1
    /\ entry = [streaming |-> 0, usage_count |-> 0, rpm_status |-> "active",
              height |-> 496]
    /\ trace = <<>>
    /\ retval = 0

\* One step of the running call: new position, new `ret', what was done.
Step(newpc, newret, events) ==
    /\ pc' = newpc
    /\ ret' = newret
    /\ trace' = trace \o events

\* Mutant: the already-in-this-state test is missing.
SStreamEnter_nocheck ==
    /\ pc = "idle"
    /\ input_lock = "free"
    /\ usage_count < MaxUsage
    /\ \E en \in {0, 1}, garbage \in IndeterminateInts :
        /\ enable' = en
        /\ entry' = [streaming |-> streaming, usage_count |-> usage_count,
                     rpm_status |-> rpm_status, height |-> format.height]
        /\ input_lock' = "held"
        /\ trace' = <<Ev("t4ka3_s_stream", "mutex_lock", "input_lock", 0)>>
        /\ ret' = garbage
        /\ pc' = IF en = 1 THEN "power_up" ELSE "suspend"
    /\ UNCHANGED <<revision, streaming, usage_count, rpm_status, ci, retval>>
    /\ UNCHANGED <<wvars, xvars>>

\* mutex_lock; `if (sensor->streaming == enable) goto error_unlock;'
SStreamEnter ==
    /\ pc = "idle"
    /\ input_lock = "free"
    /\ usage_count < MaxUsage
    /\ \E en \in {0, 1}, garbage \in IndeterminateInts :
        /\ enable' = en
        /\ entry' = [streaming |-> streaming, usage_count |-> usage_count,
                     rpm_status |-> rpm_status, height |-> format.height]
        /\ input_lock' = "held"
        /\ trace' = <<Ev("t4ka3_s_stream", "mutex_lock", "input_lock", 0)>>
        /\ ret' = garbage
        /\ pc' = IF streaming = en THEN "error_unlock"
                 ELSE IF en = 1 THEN "power_up" ELSE "suspend"
    /\ UNCHANGED <<revision, streaming, usage_count, rpm_status, ci, retval>>
    /\ UNCHANGED <<wvars, xvars>>

\* ret = pm_runtime_get_sync(); if (ret) goto error_unlock;
PowerUp ==
    /\ pc = "power_up"
    /\ \E resumed \in BOOLEAN :
        LET g == pm_runtime_get_sync(usage_count, rpm_status, resumed)
        IN  /\ usage_count' = g.usage
            /\ rpm_status' = g.status
            /\ Step(IF g.ret # 0 THEN "error_unlock"
                    ELSE IF revision = "staged" THEN "init_config" ELSE "detect",
                    g.ret,
                    <<Ev("t4ka3_s_stream", "pm_runtime_get_sync", "dev", g.ret)>>)
    /\ UNCHANGED <<revision, streaming, input_lock, enable, ci, entry, retval>>
    /\ UNCHANGED <<wvars, xvars>>

\* The group hold after t4ka3_write_reg_array(client, regs): asserted by
\* t4ka3_param_hold when it went through, closed by a write of
\* t4ka3_param_update (followed for the recovery revision).
HoldIdle == hold_open = FALSE /\ vblank_max = T4KA3_MAX_VBLANK - T4KA3_RES_HEIGHT_MAX
HoldAfter(regs, ok) ==
    IF revision # "recovery" THEN hold_open
    ELSE IF regs = "t4ka3_param_hold" THEN (hold_open \/ ok)
    ELSE IF regs = "t4ka3_param_update" THEN FALSE
    ELSE hold_open

\* ret = t4ka3_write_reg_array(client, regs); if (ret) goto error_powerdown;
WriteRegs(at, fn, regs, onok, onfail) ==
    /\ pc = at
    /\ \E ok \in BOOLEAN :
        LET r == IF ok THEN 0 ELSE 0 - EIO
        IN  /\ Step(IF ok THEN onok ELSE onfail, r,
                    <<Ev(fn, "write_reg_array", regs, r)>>)
            /\ hold_open' = HoldAfter(regs, ok)
    /\ UNCHANGED vblank_max
    /\ UNCHANGED <<revision, streaming, input_lock, usage_count, rpm_status,
                   enable, ci, entry, retval>>
    /\ UNCHANGED <<wvars, rvars, evars, dvars, mvars, kvars, ovars, cvars>>

\* Mutants: a failed init program skips the power-down label; the group
\* hold is not asserted.
InitConfig_noput ==
    WriteRegs("init_config", "t4ka3_s_stream", "t4ka3_init_config",
              "param_hold", "error_unlock")
InitConfig_nohold ==
    WriteRegs("init_config", "t4ka3_s_stream", "t4ka3_init_config",
              "mode_regs", "error_powerdown")

InitConfig ==
    WriteRegs("init_config", "t4ka3_s_stream", "t4ka3_init_config",
              "param_hold", "error_powerdown")
ParamHold ==
    WriteRegs("param_hold", "t4ka3_s_stream", "t4ka3_param_hold",
              "mode_regs", "error_powerdown")
ModeRegs ==
    WriteRegs("mode_regs", "t4ka3_s_stream", "res->regs",
              "ctrl_setup", "error_powerdown")

\* ret = __v4l2_ctrl_handler_setup(); if (ret) goto error_powerdown;
\* one control per step.
CtrlSetup ==
    /\ pc = "ctrl_setup"
    /\ \E failAt \in 0..2 :
        LET id == CtrlOrder[ci]
            in_use == pm_runtime_get_if_in_use(usage_count, rpm_status)
            c == IF id \in FlipIds THEN [ctrls EXCEPT ![id].val = ctrls[id].cur]
                 ELSE ctrls
            r == t4ka3_s_ctrl(id, in_use, streaming, failAt)
            e == CtrlEffect(id, c, in_use, r.ret)
            last == ci = Len(CtrlOrder)
        IN  /\ Step(IF r.ret # 0 THEN "error_powerdown"
                    ELSE IF last THEN "param_update" ELSE "ctrl_setup",
                    r.ret, r.events)
            /\ ci' = IF r.ret # 0 \/ last THEN 1 ELSE ci + 1
            /\ ctrls' = c
            /\ flip' = e.flip
            /\ format' = [format EXCEPT !.code = e.code]
            /\ bayer_in' = e.bayer_in
    /\ UNCHANGED <<revision, streaming, input_lock, usage_count, rpm_status,
                   enable, entry, retval>>
    /\ UNCHANGED <<vblank, pad_fmt, pad_pc>>
    /\ UNCHANGED <<wvars, rvars, evars, mvars, kvars, ovars, hvars, cvars>>

ParamUpdate ==
    WriteRegs("param_update", "t4ka3_s_stream", "t4ka3_param_update",
              "streaming_reg", "error_powerdown")

\* ret = t4ka3_write_reg_array(client, t4ka3_streaming);
\* if (ret) goto error_powerdown;  sensor->streaming = 1;
StreamingReg ==
    /\ pc = "streaming_reg"
    /\ \E ok \in BOOLEAN :
        LET r == IF ok THEN 0 ELSE 0 - EIO
        IN  /\ Step(IF ok THEN "unlock" ELSE "error_powerdown", r,
                    <<Ev("t4ka3_s_stream", "write_reg_array", "t4ka3_streaming", r)>>)
            /\ streaming' = IF ok THEN 1 ELSE streaming
    /\ UNCHANGED <<revision, input_lock, usage_count, rpm_status, enable, ci,
                   entry, retval>>
    /\ UNCHANGED <<wvars, xvars>>

\* Mutant: a failed stream-disable write leaves without the power-down.
Suspend_noput ==
    WriteRegs("suspend", "t4ka3_s_stream", "t4ka3_suspend",
              "power_down", "error_unlock")

\* else branch: ret = t4ka3_write_reg_array(client, t4ka3_suspend);
Suspend ==
    WriteRegs("suspend", "t4ka3_s_stream", "t4ka3_suspend",
              "power_down", "error_powerdown")

\* ret = pm_runtime_put(); if (ret) goto error_unlock;  sensor->streaming = 0;
PowerDown ==
    /\ pc = "power_down"
    /\ LET p == pm_runtime_put(usage_count, rpm_status)
       IN  /\ usage_count' = p.usage
           /\ Step(IF p.ret # 0 THEN "error_unlock" ELSE "unlock", p.ret,
                   <<Ev("t4ka3_s_stream", "pm_runtime_put", "dev", p.ret)>>)
           /\ streaming' = IF p.ret # 0 THEN streaming ELSE 0
    /\ UNCHANGED <<revision, input_lock, rpm_status, enable, ci, entry, retval>>
    /\ UNCHANGED <<wvars, xvars>>

\* error_powerdown: ret = pm_runtime_put(sensor->sd.dev);
ErrorPowerdown ==
    /\ pc = "error_powerdown"
    /\ LET p == pm_runtime_put(usage_count, rpm_status)
       IN  /\ usage_count' = p.usage
           /\ Step("error_unlock", p.ret,
                   <<Ev("t4ka3_s_stream", "pm_runtime_put", "dev", p.ret)>>)
    /\ UNCHANGED <<revision, streaming, input_lock, rpm_status, enable, ci,
                   entry, retval>>
    /\ UNCHANGED <<wvars, xvars>>

\* mutex_unlock(&sensor->input_lock); return ret;
Return(at) ==
    /\ pc = at
    /\ input_lock' = "free"
    /\ retval' = ret
    /\ Step("idle", ret, <<Ev("t4ka3_s_stream", "mutex_unlock", "input_lock", 0)>>)
    /\ UNCHANGED <<revision, streaming, usage_count, rpm_status, enable, ci, entry>>
    /\ UNCHANGED <<wvars, xvars>>

SStreamReturn == Return("unlock")
ErrorUnlock == Return("error_unlock")

\* "recovery" revision: ret = t4ka3_detect(client, &id); if (ret) recovery.
Detect ==
    /\ pc = "detect"
    /\ \E ok \in BOOLEAN :
        LET r == IF ok THEN 0 ELSE 0 - ENODEV
        IN  Step(IF ok THEN "streaming_reg" ELSE "rec_put", r,
                 <<Ev("t4ka3_s_stream", "t4ka3_detect", "T4KA3_REG_PRODUCT_ID", r)>>)
    /\ UNCHANGED <<revision, streaming, input_lock, usage_count, rpm_status,
                   enable, ci, entry, retval>>
    /\ UNCHANGED <<wvars, xvars>>

\* t4ka3_recovery: ret = pm_runtime_put(sd->dev); if (ret) return ret;
RecoveryPut ==
    /\ pc = "rec_put"
    /\ LET p == pm_runtime_put(usage_count, rpm_status)
       IN  /\ usage_count' = p.usage
           /\ Step(IF p.ret # 0 THEN "error_powerdown" ELSE "rec_get", p.ret,
                   <<Ev("t4ka3_recovery", "pm_runtime_put", "dev", p.ret)>>)
    /\ UNCHANGED <<revision, streaming, input_lock, rpm_status, enable, ci,
                   entry, retval>>
    /\ UNCHANGED <<wvars, xvars>>

\* t4ka3_recovery: ret = pm_runtime_get_sync(sd->dev); if (ret) return ret;
RecoveryGet ==
    /\ pc = "rec_get"
    /\ \E resumed \in BOOLEAN :
        LET g == pm_runtime_get_sync(usage_count, rpm_status, resumed)
        IN  /\ usage_count' = g.usage
            /\ rpm_status' = g.status
            /\ Step(IF g.ret # 0 THEN "error_powerdown" ELSE "rec_hold", g.ret,
                    <<Ev("t4ka3_recovery", "pm_runtime_get_sync", "dev", g.ret)>>)
    /\ UNCHANGED <<revision, streaming, input_lock, enable, ci, entry, retval>>
    /\ UNCHANGED <<wvars, xvars>>

RecoveryHold ==
    WriteRegs("rec_hold", "t4ka3_recovery", "t4ka3_param_hold",
              "rec_orientation", "error_powerdown")

\* A register write that carries a value.
EvVal(fn, ev, arg, v, r) == [fn |-> fn, ev |-> ev, arg |-> arg, ret |-> r, val |-> v]

\* Mutant: the orientation register is cleared, not restored.
RecoveryOrientation_zero ==
    /\ pc = "rec_orientation"
    /\ \E ok \in BOOLEAN :
        LET r == IF ok THEN 0 ELSE 0 - EIO
        IN  Step(IF ok THEN "rec_mode" ELSE "error_powerdown", r,
                 <<EvVal("t4ka3_recovery", "write_reg", T4KA3_REG_IMG_ORIENTATION, 0, r)>>)
    /\ UNCHANGED <<revision, streaming, input_lock, usage_count, rpm_status,
                   enable, ci, entry, retval>>
    /\ UNCHANGED <<wvars, xvars>>

\* ret = t4ka3_write_reg(client, T4KA3_8BIT, T4KA3_REG_IMG_ORIENTATION, dev->flip);
RecoveryOrientation ==
    /\ pc = "rec_orientation"
    /\ \E ok \in BOOLEAN :
        LET r == IF ok THEN 0 ELSE 0 - EIO
        IN  Step(IF ok THEN "rec_mode" ELSE "error_powerdown", r,
                 <<EvVal("t4ka3_recovery", "write_reg", T4KA3_REG_IMG_ORIENTATION, flip, r)>>)
    /\ UNCHANGED <<revision, streaming, input_lock, usage_count, rpm_status,
                   enable, ci, entry, retval>>
    /\ UNCHANGED <<wvars, xvars>>

RecoveryMode ==
    WriteRegs("rec_mode", "t4ka3_recovery", "res->regs",
              "rec_update", "error_powerdown")
RecoveryUpdate ==
    WriteRegs("rec_update", "t4ka3_recovery", "t4ka3_param_update",
              "streaming_reg", "error_powerdown")

\* val |= bit / val &= ~bit
WithBit(val, bit, on) ==
    LET set == (val \div bit) % 2 = 1
    IN  IF on THEN (IF set THEN val ELSE val + bit) ELSE (IF set THEN val - bit ELSE val)

\* "recovery" revision, a vflip / hflip control set (the handler lock is
\* input_lock): t4ka3_t_hflip / t4ka3_t_vflip write t4ka3_param_hold without
\* looking at the result, read the orientation register, change their bit,
\* write it back, write t4ka3_param_update and save the written value in
\* dev->flip; a failed read or write returns at once.
RecFlipCtrl ==
    /\ revision = "recovery"
    /\ pc = "idle"
    /\ input_lock = "free"
    /\ \E id \in FlipIds, value \in {0, 1}, regval \in 0..3, holdok \in BOOLEAN,
          readok \in BOOLEAN, writeok \in BOOLEAN :
        /\ flip' = IF readok /\ writeok THEN WithBit(regval, FlipBit(id), value # 0)
                   ELSE flip
        /\ hold_open' = IF readok /\ writeok THEN FALSE ELSE (hold_open \/ holdok)
    /\ UNCHANGED vblank_max
    /\ UNCHANGED <<ctrls, format, bayer_in, vblank, pad_fmt, pad_pc>>
    /\ UNCHANGED <<wvars, svars, rvars, evars, mvars, kvars, ovars, cvars>>

\* The autosuspend timer: t4ka3_pm_suspend once nobody holds a reference.
AutoSuspend ==
    /\ usage_count = 0
    /\ rpm_status = "active"
    /\ rpm_status' = "suspended"
    /\ UNCHANGED <<revision, streaming, input_lock, usage_count, pc, enable, ret,
                   ci, entry, trace, retval>>
    /\ UNCHANGED <<wvars, xvars>>

(***************************************************************************)
(* t4ka3_read_reg and t4ka3_write_reg: one register access with retries.    *)
(***************************************************************************)
T4KA3_BYTE_MAX == 30
RetryCount == 5
EREMOTEIO == 121

\* Largest len / data_length a call is made with.
MaxLen == 31

\* What i2c_transfer can return for a transfer of num messages: num when all
\* went through, fewer when it was cut short, a negative errno.
TransferResults(num) == (0..num) \cup {0 - EREMOTEIO}

\* Messages per transfer: write-address then read (2), or one write (1).
NumMsg(op) == IF op = "read" THEN 2 ELSE 1

\* The width test each function starts with.
LenRejected(op, len) ==
    IF op = "read" THEN len > T4KA3_BYTE_MAX
    ELSE len # T4KA3_8BIT /\ len # T4KA3_16BIT

RegIdle ==
    /\ rop = "none"
    /\ rlen = 0
    /\ retry_cnt = 0
    /\ rerr = 0
    /\ rtries = <<>>
    /\ rret = 0
    /\ rpc = "off"

RegStart ==
    /\ rop \in {"read", "write"}
    /\ rlen \in 0..MaxLen
    /\ retry_cnt = RetryCount
    /\ rerr \in IndeterminateInts
    /\ rtries = <<>>
    /\ rret = 0
    /\ rpc = "check"

\* `if (len > T4KA3_BYTE_MAX) return -EINVAL;' /
\* `if (data_length != T4KA3_8BIT && data_length != T4KA3_16BIT) return -EINVAL;'
RegCheck ==
    /\ rpc = "check"
    /\ IF LenRejected(rop, rlen)
       THEN rret' = 0 - EINVAL /\ rpc' = "done"
       ELSE rret' = rret /\ rpc' = "loop"
    /\ UNCHANGED <<rop, rlen, retry_cnt, rerr, rtries>>
    /\ UNCHANGED <<wvars, svars, evars, dvars, mvars, kvars, ovars, hvars, cvars>>

\* Mutant: the read gives up one attempt early.
RegAttempt_early ==
    /\ rpc = "loop"
    /\ retry_cnt > 0
    /\ \E r \in TransferResults(NumMsg(rop)) :
        LET cnt == retry_cnt - 1
            e == IF rop = "write" THEN (IF r = 1 THEN 0 ELSE 0 - EIO)
                 ELSE IF r # 2 /\ r >= 0 THEN 0 - EIO ELSE r
            ok == IF rop = "write" THEN e = 0 ELSE r = 2
        IN  /\ retry_cnt' = cnt
            /\ rtries' = Append(rtries, r)
            /\ rerr' = e
            /\ IF ok THEN rpc' = "done" /\ rret' = 0
               ELSE IF rop = "read" /\ cnt <= 1 THEN rpc' = "done" /\ rret' = e
               ELSE rpc' = "loop" /\ rret' = rret
    /\ UNCHANGED <<rop, rlen>>
    /\ UNCHANGED <<wvars, svars, evars, dvars, mvars, kvars, ovars, hvars, cvars>>

\* `while (retry_cnt-- > 0)' entered: one i2c_transfer and what follows it.
\* read: err = i2c_transfer(); short counts become -EIO; goto error once
\* retry_cnt <= 0; break on err == 2.  write: ret = t4ka3_i2c_write(); break
\* on 0.
RegAttempt ==
    /\ rpc = "loop"
    /\ retry_cnt > 0
    /\ \E r \in TransferResults(NumMsg(rop)) :
        LET cnt == retry_cnt - 1
            e == IF rop = "write" THEN (IF r = 1 THEN 0 ELSE 0 - EIO)
                 ELSE IF r # 2 /\ r >= 0 THEN 0 - EIO ELSE r
            ok == IF rop = "write" THEN e = 0 ELSE r = 2
        IN  /\ retry_cnt' = cnt
            /\ rtries' = Append(rtries, r)
            /\ rerr' = e
            /\ IF ok THEN rpc' = "done" /\ rret' = 0
               ELSE IF rop = "read" /\ cnt <= 0 THEN rpc' = "done" /\ rret' = e
               ELSE rpc' = "loop" /\ rret' = rret
    /\ UNCHANGED <<rop, rlen>>
    /\ UNCHANGED <<wvars, svars, evars, dvars, mvars, kvars, ovars, hvars, cvars>>

\* `while (retry_cnt-- > 0)' not entered: the function returns what the last
\* attempt left in its local variable.
RegLoopExit ==
    /\ rpc = "loop"
    /\ retry_cnt <= 0
    /\ retry_cnt' = retry_cnt - 1
    /\ rret' = IF rop = "read" THEN 0 ELSE rerr
    /\ rpc' = "done"
    /\ UNCHANGED <<rop, rlen, rerr, rtries>>
    /\ UNCHANGED <<wvars, svars, evars, dvars, mvars, kvars, ovars, hvars, cvars>>

RegNext == RegCheck \/ RegAttempt \/ RegLoopExit

(***************************************************************************)
(* t4ka3_set_exposure / __t4ka3_set_exposure, and the vblank control that   *)
(* also writes the frame-length-lines register.                            *)
(***************************************************************************)
T4KA3_COARSE_INTEGRATION_TIME_MIN == 1
T4KA3_COARSE_INTEGRATION_TIME_MARGIN == 6
T4KA3_MAX_EXPOSURE_SUPPORTED == 65535 - T4KA3_COARSE_INTEGRATION_TIME_MARGIN
T4KA3_MIN_GLOBAL_GAIN_SUPPORTED == 128
T4KA3_MAX_GLOBAL_GAIN_SUPPORTED == 2047
T4KA3_REG_DIGGAIN_GREEN_R == 526
T4KA3_REG_DIGGAIN_RED == 528
T4KA3_REG_DIGGAIN_BLUE == 530
T4KA3_REG_DIGGAIN_GREEN_B == 532
T4KA3_REG_GLOBAL_GAIN == 564
T4KA3_MIN_VBLANK == 4

\* A value as a u16.
U16(v) == v % 65536

\* Mutant: clamp_t without its upper limit.
clamp_t_nohi(v, lo, hi) == IF v < lo THEN lo ELSE v

\* clamp_t(u16, v, lo, hi)
clamp_t(v, lo, hi) == IF U16(v) < lo THEN lo ELSE IF U16(v) > hi THEN hi ELSE U16(v)

\* The requests checked: for each argument the limits of its range and their
\* neighbours, the other two arguments in range.
CoarseRequests ==
    {0, 1, 2, 2000, T4KA3_LINES_PER_FRAME - T4KA3_COARSE_INTEGRATION_TIME_MARGIN,
     T4KA3_LINES_PER_FRAME - T4KA3_COARSE_INTEGRATION_TIME_MARGIN + 1, 2490,
     T4KA3_MAX_EXPOSURE_SUPPORTED - 1, T4KA3_MAX_EXPOSURE_SUPPORTED,
     T4KA3_MAX_EXPOSURE_SUPPORTED + 1, 65535}
GainRequests ==
    {0, T4KA3_MIN_GLOBAL_GAIN_SUPPORTED - 1, T4KA3_MIN_GLOBAL_GAIN_SUPPORTED, 256,
     T4KA3_MAX_GLOBAL_GAIN_SUPPORTED, T4KA3_MAX_GLOBAL_GAIN_SUPPORTED + 1, 65535}
DigitalGainRequests == {0, 256, 65535}
ExposureRequests ==
    {[coarse_itg |-> c, gain |-> 256, digitalgain |-> 256] : c \in CoarseRequests}
    \cup {[coarse_itg |-> 2000, gain |-> g, digitalgain |-> 256] : g \in GainRequests}
    \cup {[coarse_itg |-> 2000, gain |-> 256, digitalgain |-> d] : d \in DigitalGainRequests}
    \cup {[coarse_itg |-> 65535, gain |-> 65535, digitalgain |-> 65535],
          [coarse_itg |-> 0, gain |-> 0, digitalgain |-> 0]}

\* Values the vblank control is set to in the checked runs.
VblankRequests ==
    {T4KA3_MIN_VBLANK, T4KA3_LINES_PER_FRAME - T4KA3_RES_HEIGHT_MAX, 1000}

\* Mutant: coarse-integration-time written before frame-length-lines.
ExposureRegs_swapped ==
    <<T4KA3_REG_COARSE_INTEGRATION_TIME, T4KA3_REG_FRAME_LENGTH_LINES,
      T4KA3_REG_GLOBAL_GAIN, T4KA3_REG_DIGGAIN_GREEN_R, T4KA3_REG_DIGGAIN_RED,
      T4KA3_REG_DIGGAIN_BLUE, T4KA3_REG_DIGGAIN_GREEN_B>>

\* The registers __t4ka3_set_exposure writes, in the order of its statements.
ExposureRegs ==
    <<T4KA3_REG_FRAME_LENGTH_LINES, T4KA3_REG_COARSE_INTEGRATION_TIME,
      T4KA3_REG_GLOBAL_GAIN, T4KA3_REG_DIGGAIN_GREEN_R, T4KA3_REG_DIGGAIN_RED,
      T4KA3_REG_DIGGAIN_BLUE, T4KA3_REG_DIGGAIN_GREEN_B>>

\* The value each of these writes carries.
ExposureVal(reg, loc, args) ==
    CASE reg = T4KA3_REG_FRAME_LENGTH_LINES -> loc.lines_per_frame
      [] reg = T4KA3_REG_COARSE_INTEGRATION_TIME -> loc.coarse_itg
      [] reg = T4KA3_REG_GLOBAL_GAIN -> loc.gain
      [] OTHER -> args.digitalgain

ExposureState ==
    [fll |-> fll, coarse_itg |-> coarse_itg, gain |-> gain, digital_gain |-> digital_gain]

ExpIdle ==
    /\ fll = T4KA3_LINES_PER_FRAME
    /\ coarse_itg = 0
    /\ gain = 0
    /\ digital_gain = 0
    /\ eargs = [coarse_itg |-> 0, gain |-> 0, digitalgain |-> 0]
    /\ elocal = [coarse_itg |-> 0, gain |-> 0, lines_per_frame |-> 0]
    /\ ewrites = <<>>
    /\ eentry = [fll |-> T4KA3_LINES_PER_FRAME, coarse_itg |-> 0, gain |-> 0,
                 digital_gain |-> 0]
    /\ eret = 0
    /\ epc = "off"

\* t4ka3_set_exposure: mutex_lock; __t4ka3_set_exposure up to the first write:
\* both clamps and the choice of lines_per_frame.
SetExposureEnterFrom(requests) ==
    /\ epc \in {"off", "done"}
    /\ input_lock = "free"
    /\ \E req \in requests, garbage \in IndeterminateInts :
        LET c == req.coarse_itg
            g == req.gain
            d == req.digitalgain
            cc == clamp_t(c, T4KA3_COARSE_INTEGRATION_TIME_MIN, T4KA3_MAX_EXPOSURE_SUPPORTED)
            gg == clamp_t(g, T4KA3_MIN_GLOBAL_GAIN_SUPPORTED, T4KA3_MAX_GLOBAL_GAIN_SUPPORTED)
            lpf == IF cc > T4KA3_LINES_PER_FRAME - T4KA3_COARSE_INTEGRATION_TIME_MARGIN
                   THEN U16(cc + T4KA3_COARSE_INTEGRATION_TIME_MARGIN)
                   ELSE T4KA3_LINES_PER_FRAME
        IN  /\ eargs' = req
            /\ elocal' = [coarse_itg |-> cc, gain |-> gg, lines_per_frame |-> lpf]
            /\ eret' = garbage
    /\ eentry' = ExposureState
    /\ ewrites' = <<>>
    /\ input_lock' = "held"
    /\ epc' = "write"
    /\ UNCHANGED <<fll, coarse_itg, gain, digital_gain>>
    /\ UNCHANGED <<revision, streaming, usage_count, rpm_status, pc, enable, ret, ci,
                   entry, trace, retval>>
    /\ UNCHANGED <<wvars, rvars, dvars, mvars, kvars, ovars, hvars, cvars>>

SetExposureEnter == SetExposureEnterFrom(ExposureRequests)

\* Requests of the ATOMISP_IOC_S_EXPOSURE ioctl: integration_time[0], gain[0]
\* and gain[1] of struct atomisp_exposure, values below and above 0xFFFF.
IoctlRequests ==
    {[integration_time |-> t, again |-> 256, dgain |-> 256] :
        t \in {2000, 65535, 65536, 65537, 70000, 131071}}
    \cup {[integration_time |-> 2000, again |-> g, dgain |-> 256] :
        g \in {65535, 65536, 65792, 70000}}
    \cup {[integration_time |-> 70000, again |-> 70000, dgain |-> 65792]}

\* t4ka3_s_exposure: the three fields are assigned to u16 locals, which are
\* the arguments of t4ka3_set_request.
t4ka3_s_exposure(request) ==
    [coarse_itg |-> U16(request.integration_time),
     gain |-> U16(request.again),
     digitalgain |-> U16(request.dgain),
     ioctl |-> request]

\* The arguments t4ka3_s_exposure passes on, one triple per request.
IoctlArgs == {t4ka3_s_exposure(e) : e \in IoctlRequests}

\* t4ka3_ioctl(ATOMISP_IOC_S_EXPOSURE) up to the first write.
SExposureEnter == SetExposureEnterFrom(IoctlArgs)

\* The same call with the one request made in the runs that also set controls.
FrmExposureRequests == {[coarse_itg |-> 2000, gain |-> 256, digitalgain |-> 256]}
SetExposureEnterFrm == SetExposureEnterFrom(FrmExposureRequests)

\* Mutant: a failed write does not end the call.
SetExposureWrite_goon ==
    /\ epc = "write"
    /\ Len(ewrites) < Len(ExposureRegs)
    /\ \E r \in {0, 0 - EIO} :
        LET reg == ExposureRegs[Len(ewrites) + 1]
            val == ExposureVal(reg, elocal, eargs)
        IN  /\ ewrites' = Append(ewrites, [reg |-> reg, val |-> val, ret |-> r])
            /\ eret' = r
            /\ fll' = IF r = 0 /\ reg = T4KA3_REG_FRAME_LENGTH_LINES THEN val ELSE fll
            /\ epc' = "write"
    /\ UNCHANGED <<coarse_itg, gain, digital_gain, eargs, elocal, eentry>>
    /\ UNCHANGED <<wvars, svars, rvars, dvars, mvars, kvars, ovars, hvars, cvars>>

\* `ret = t4ka3_write_reg(...); if (ret) goto out_disable;', seven times over.
SetExposureWrite ==
    /\ epc = "write"
    /\ Len(ewrites) < Len(ExposureRegs)
    /\ \E r \in {0, 0 - EIO} :
        LET reg == ExposureRegs[Len(ewrites) + 1]
            val == ExposureVal(reg, elocal, eargs)
        IN  /\ ewrites' = Append(ewrites, [reg |-> reg, val |-> val, ret |-> r])
            /\ eret' = r
            /\ fll' = IF r = 0 /\ reg = T4KA3_REG_FRAME_LENGTH_LINES THEN val ELSE fll
            /\ epc' = IF r # 0 THEN "out_disable" ELSE "write"
    /\ UNCHANGED <<coarse_itg, gain, digital_gain, eargs, elocal, eentry>>
    /\ UNCHANGED <<wvars, svars, rvars, dvars, mvars, kvars, ovars, hvars, cvars>>

\* All seven writes went through: the three fields are cached.
SetExposureCommit ==
    /\ epc = "write"
    /\ Len(ewrites) = Len(ExposureRegs)
    /\ gain' = elocal.gain
    /\ coarse_itg' = elocal.coarse_itg
    /\ digital_gain' = eargs.digitalgain
    /\ epc' = "out_disable"
    /\ UNCHANGED <<fll, eargs, elocal, ewrites, eentry, eret>>
    /\ UNCHANGED <<wvars, svars, rvars, dvars, mvars, kvars, ovars, hvars, cvars>>

\* The value of the last write to reg in writes that went through, old when
\* there is none.
RECURSIVE LastWritten(_, _, _)
LastWritten(writes, reg, old) ==
    IF writes = <<>> THEN old
    ELSE LET w == writes[Len(writes)]
         IN  IF w.reg = reg /\ w.ret = 0 THEN w.val
             ELSE LastWritten(SubSeq(writes, 1, Len(writes) - 1), reg, old)

\* With track the history variables are brought up to date: allok, and
\* coarse_reg from the writes of the call.
\* out_disable: return ret; back in t4ka3_set_exposure: mutex_unlock.
SetExposureReturnH(track) ==
    /\ epc = "out_disable"
    /\ input_lock' = "free"
    /\ epc' = "done"
    /\ UNCHANGED <<fll, coarse_itg, gain, digital_gain, eargs, elocal, ewrites,
                   eentry, eret>>
    /\ UNCHANGED <<revision, streaming, usage_count, rpm_status, pc, enable, ret, ci,
                   entry, trace, retval>>
    /\ allok' = IF track THEN (allok /\ eret = 0) ELSE allok
    /\ coarse_reg' = IF track THEN LastWritten(ewrites, T4KA3_REG_COARSE_INTEGRATION_TIME, coarse_reg)
                     ELSE coarse_reg
    /\ UNCHANGED <<exposure, test_pattern, creq, clog, cret, cpc, deferred>>
    /\ UNCHANGED <<wvars, rvars, dvars, mvars, kvars, ovars, hvars>>

SetExposureReturn == SetExposureReturnH(FALSE)

\* The same return in the runs that keep the history of failures.
SetExposureReturnFrm == SetExposureReturnH(TRUE)

\* t4ka3_s_ctrl, V4L2_CID_VBLANK on a powered sensor: frame-length-lines is
\* written with format.height + ctrl->val.
VblankCtrl ==
    /\ epc \in {"off", "done"}
    /\ input_lock = "free"
    /\ \E v \in VblankRequests, r \in {0, 0 - EIO} :
        fll' = IF r = 0 THEN U16(T4KA3_RES_HEIGHT_MAX + v) ELSE fll
    /\ UNCHANGED <<coarse_itg, gain, digital_gain, eargs, elocal, ewrites, eentry,
                   eret, epc>>
    /\ UNCHANGED <<wvars, svars, rvars, dvars, mvars, kvars, ovars, hvars, cvars>>

ExpNext ==
    \/ SetExposureEnter
    \/ SetExposureWrite
    \/ SetExposureCommit
    \/ SetExposureReturn
    \/ VblankCtrl

(***************************************************************************)
(* Control sets and t4ka3_set_pad_format on the staged revision.  Control   *)
(* handlers run under the handler lock, which is input_lock.                *)
(***************************************************************************)
\* Values a vblank set request asks for, besides the per-mode defaults.
DevVblankRequests == {T4KA3_MIN_VBLANK}

\* One set request for flip control id with value v, from taking the handler
\* lock to releasing it: t4ka3_s_ctrl runs when v differs from the committed
\* value, and the value is committed when it returned 0.
FlipCtrlCall(id, v, failAt) ==
    LET c == [ctrls EXCEPT ![id].val = v]
        called == v # ctrls[id].cur
        in_use == pm_runtime_get_if_in_use(usage_count, rpm_status)
        r == IF called THEN CtrlResult(id, in_use, streaming, failAt)
             ELSE [events |-> <<>>, ret |-> 0]
        e == IF called THEN CtrlEffect(id, c, in_use, r.ret)
             ELSE [flip |-> flip, code |-> format.code, bayer_in |-> bayer_in]
    IN  /\ revision = "staged"
        /\ pc = "idle"
        /\ input_lock = "free"
        /\ ctrls' = IF r.ret = 0 THEN [c EXCEPT ![id].cur = v] ELSE c
        /\ flip' = e.flip
        /\ format' = [format EXCEPT !.code = e.code]
        /\ bayer_in' = e.bayer_in
        /\ UNCHANGED <<vblank, pad_fmt, pad_pc>>
        /\ UNCHANGED <<wvars, svars, rvars, evars, mvars, kvars, ovars, hvars, cvars>>

FlipCtrlSet == \E id \in FlipIds, v \in {0, 1}, failAt \in 0..2 : FlipCtrlCall(id, v, failAt)

\* A set request that changes test_pattern, exposure or vblank.
OtherCtrlSet ==
    /\ revision = "staged"
    /\ pc = "idle"
    /\ input_lock = "free"
    /\ \E id \in {"test_pattern", "exposure", "vblank"}, v \in DevVblankRequests,
          failAt \in 0..1 :
        LET in_use == pm_runtime_get_if_in_use(usage_count, rpm_status)
            called == id # "vblank" \/ v # vblank
            r == IF called THEN CtrlResult(id, in_use, streaming, failAt)
                 ELSE [events |-> <<>>, ret |-> 0]
            e == IF called THEN CtrlEffect(id, ctrls, in_use, r.ret)
                 ELSE [flip |-> flip, code |-> format.code, bayer_in |-> bayer_in]
        IN  /\ vblank' = IF id = "vblank" /\ r.ret = 0 THEN v ELSE vblank
            /\ flip' = e.flip
            /\ format' = [format EXCEPT !.code = e.code]
            /\ bayer_in' = e.bayer_in
    /\ UNCHANGED <<ctrls, pad_fmt, pad_pc>>
    /\ UNCHANGED <<wvars, svars, rvars, evars, mvars, kvars, ovars, hvars, cvars>>

\* t4ka3_set_pad_format up to mutex_lock: v4l2_find_nearest_size and
\* t4ka3_fill_format on the caller's format.
PadFormatFill ==
    /\ revision = "staged"
    /\ pad_pc = "idle"
    /\ \E h \in FormatHeights :
        pad_fmt' = [height |-> h,
                    code |-> t4ka3_set_bayer_order(ctrls.vflip.val, ctrls.hflip.val),
                    vflip |-> ctrls.vflip.val, hflip |-> ctrls.hflip.val]
    /\ pad_pc' = "filled"
    /\ UNCHANGED <<ctrls, flip, format, bayer_in, vblank>>
    /\ UNCHANGED <<wvars, svars, rvars, evars, mvars, kvars, ovars, hvars, cvars>>

\* t4ka3_set_pad_format from mutex_lock to its return: sensor->format = *fmt,
\* then the vblank control is reset to its default for the new height, which
\* calls t4ka3_s_ctrl when that changes its value.
PadFormatStore ==
    /\ pad_pc = "filled"
    /\ pc = "idle"
    /\ input_lock = "free"
    /\ \E failAt \in 0..1 :
        LET def == T4KA3_LINES_PER_FRAME - pad_fmt.height
            called == def # vblank
            in_use == pm_runtime_get_if_in_use(usage_count, rpm_status)
            r == IF called THEN CtrlResult("vblank", in_use, streaming, failAt)
                 ELSE [events |-> <<>>, ret |-> 0]
            recomputed == called /\ ~in_use
        IN  /\ format' = [height |-> pad_fmt.height,
                          code |-> IF recomputed
                                   THEN t4ka3_set_bayer_order(ctrls.vflip.val, ctrls.hflip.val)
                                   ELSE pad_fmt.code]
            /\ bayer_in' = IF recomputed
                           THEN [vflip |-> ctrls.vflip.val, hflip |-> ctrls.hflip.val]
                           ELSE [vflip |-> pad_fmt.vflip, hflip |-> pad_fmt.hflip]
            /\ vblank' = IF r.ret = 0 THEN def ELSE vblank
    /\ pad_pc' = "idle"
    /\ pad_fmt' = [height |-> 496, code |-> t4ka3_set_bayer_order(0, 0),
                   vflip |-> 0, hflip |-> 0]
    /\ UNCHANGED <<ctrls, flip>>
    /\ UNCHANGED <<wvars, svars, rvars, evars, mvars, kvars, ovars, hvars, cvars>>

(***************************************************************************)
(* Mode selection and set format of the recovery revision: distance,        *)
(* nearest_resolution_index, __t4ka3_try_mbus_fmt, __t4ka3_set_mbus_fmt and *)
(* t4ka3_set_pad_format.  unsigned int is 32 bits wide.                     *)
(***************************************************************************)
T4KA3_RES_WIDTH_MAX == 3280
LARGEST_ALLOWED_RATIO_MISMATCH == 600
EPERM == 1
INT_MAX == 2147483647

\* t4ka3_res_preview[], first entry at index 0 in the source.
t4ka3_res_preview ==
    << [width |-> 736, height |-> 496], [width |-> 896, height |-> 736],
       [width |-> 1936, height |-> 1096], [width |-> 3280, height |-> 2464] >>

N_RES == Len(t4ka3_res_preview)

\* Requested widths and heights: zero, a few lines, sizes between the catalog
\* entries, the entries themselves and sizes above the largest one.
ReqWidths == {0, 40, 736, 737, 1920, T4KA3_RES_WIDTH_MAX, T4KA3_RES_WIDTH_MAX + 1}
ReqHeights == {0, 30, 496, 497, 1080, T4KA3_RES_HEIGHT_MAX, T4KA3_RES_HEIGHT_MAX + 1}

\* Quotient and remainder of (q * 2^k) / d, computed without forming q * 2^k.
RECURSIVE ShlDiv(_, _, _)
ShlDiv(q, k, d) ==
    IF k = 0 THEN [quot |-> q \div d, rem |-> q % d]
    ELSE LET p == ShlDiv(q, k - 1, d)
         IN  [quot |-> 2 * p.quot + ((2 * p.rem) \div d), rem |-> (2 * p.rem) % d]

\* (x << 13) / d in unsigned int: the shift keeps the low 32 bits of x * 8192,
\* that is (x mod 2^19) * 8192.
Shl13Div32(x, d) == ShlDiv(x % (2 ^ 19), 13, d).quot

\* The same quotient when the shift loses no bits.
Shl13Div(x, d) == ShlDiv(x, 13, d).quot

abs(x) == IF x < 0 THEN 0 - x ELSE x

\* distance(): w_ratio is computed before h is tested and w is never tested,
\* so w = 0 is a division by zero (fault).  val is the value returned.
distance(res, w, h) ==
    IF w = 0 THEN [fault |-> TRUE, val |-> 0]
    ELSE LET w_ratio == (res.width * 8192) \div w
         IN  IF h = 0 THEN [fault |-> FALSE, val |-> 0 - EPERM]
             ELSE LET h_ratio == (res.height * 8192) \div h
                  IN  IF h_ratio = 0 THEN [fault |-> FALSE, val |-> 0 - EPERM]
                      ELSE LET match == abs(Shl13Div32(w_ratio, h_ratio) - 8192)
                           IN  IF \/ w_ratio < 8192
                                  \/ h_ratio < 8192
                                  \/ match > LARGEST_ALLOWED_RATIO_MISMATCH
                               THEN [fault |-> FALSE, val |-> 0 - EPERM]
                               ELSE [fault |-> FALSE, val |-> w_ratio + h_ratio]

\* The for loop of nearest_resolution_index from entry i on.
RECURSIVE nearest_loop(_, _, _, _, _)
nearest_loop(i, idx, min_dist, w, h) ==
    IF i >= N_RES THEN [fault |-> FALSE, idx |-> idx]
    ELSE LET dist == distance(t4ka3_res_preview[i + 1], w, h)
         IN  IF dist.fault THEN [fault |-> TRUE, idx |-> idx]
             ELSE IF dist.val = 0 - 1 THEN nearest_loop(i + 1, idx, min_dist, w, h)
             ELSE IF dist.val < min_dist THEN nearest_loop(i + 1, i, dist.val, w, h)
             ELSE nearest_loop(i + 1, idx, min_dist, w, h)

nearest_resolution_index(w, h) == nearest_loop(0, 0 - 1, INT_MAX, w, h)

\* Mutant: the fallback is the first catalog entry.
__t4ka3_try_mbus_fmt_first(w, h) ==
    IF w > T4KA3_RES_WIDTH_MAX \/ h > T4KA3_RES_HEIGHT_MAX
    THEN [fault |-> FALSE, width |-> T4KA3_RES_WIDTH_MAX, height |-> T4KA3_RES_HEIGHT_MAX]
    ELSE LET n == nearest_resolution_index(w, h)
             idx == IF n.idx = 0 - 1 THEN 0 ELSE n.idx
         IN  [fault |-> n.fault, width |-> t4ka3_res_preview[idx + 1].width,
              height |-> t4ka3_res_preview[idx + 1].height]

\* __t4ka3_try_mbus_fmt: the width and height it leaves in the caller's format.
__t4ka3_try_mbus_fmt(w, h) ==
    IF w > T4KA3_RES_WIDTH_MAX \/ h > T4KA3_RES_HEIGHT_MAX
    THEN [fault |-> FALSE, width |-> T4KA3_RES_WIDTH_MAX, height |-> T4KA3_RES_HEIGHT_MAX]
    ELSE LET n == nearest_resolution_index(w, h)
             idx == IF n.idx = 0 - 1 THEN N_RES - 1 ELSE n.idx
         IN  [fault |-> n.fault, width |-> t4ka3_res_preview[idx + 1].width,
              height |-> t4ka3_res_preview[idx + 1].height]

NoDist == [called |-> FALSE, w |-> 0, h |-> 0, idx |-> 0 - 1]
NoReq == [which |-> "none", width |-> 0, height |-> 0, info |-> TRUE]

\* t4ka3_probe of the recovery revision: kzalloc, fmt_idx = 0.
FmtIdle ==
    /\ mreq = NoReq
    /\ mfmt = [width |-> 0, height |-> 0]
    /\ mformat = [width |-> 0, height |-> 0]
    /\ fmt_idx = 0
    /\ mdist = NoDist
    /\ mret = 0
    /\ mpc = "idle"

\* t4ka3_set_pad_format up to the first mutex_lock: dev->format = fmt->format
\* for an ACTIVE request, then __t4ka3_set_mbus_fmt's hostdata test.
FmtEnter ==
    /\ mpc = "idle"
    /\ \E which \in {"TRY", "ACTIVE"}, w \in ReqWidths, h \in ReqHeights,
          info \in BOOLEAN :
        /\ mreq' = IF info
                   THEN [which |-> which, width |-> w, height |-> h, info |-> info]
                   ELSE NoReq
        /\ mfmt' = [width |-> w, height |-> h]
        /\ mformat' = IF which = "ACTIVE" THEN [width |-> w, height |-> h] ELSE mformat
        /\ mret' = IF info THEN mret ELSE 0 - EINVAL
        /\ mpc' = IF info THEN "try" ELSE "idle"
    /\ mdist' = NoDist
    /\ UNCHANGED fmt_idx
    /\ UNCHANGED <<wvars, svars, rvars, evars, dvars, kvars, ovars, hvars, cvars>>

\* __t4ka3_try_mbus_fmt, from mutex_lock to mutex_unlock; a division by zero
\* ends the call inside the locked region.
FmtTry ==
    /\ mpc = "try"
    /\ input_lock = "free"
    /\ LET r == __t4ka3_try_mbus_fmt(mfmt.width, mfmt.height)
           called == ~(mfmt.width > T4KA3_RES_WIDTH_MAX \/ mfmt.height > T4KA3_RES_HEIGHT_MAX)
           n == nearest_resolution_index(mfmt.width, mfmt.height)
       IN  /\ mfmt' = IF r.fault THEN mfmt ELSE [width |-> r.width, height |-> r.height]
           /\ mpc' = IF r.fault THEN "fault" ELSE "set"
           /\ input_lock' = IF r.fault THEN "held" ELSE "free"
           /\ mdist' = IF called /\ ~r.fault
                       THEN [called |-> TRUE, w |-> mfmt.width, h |-> mfmt.height,
                             idx |-> n.idx]
                       ELSE NoDist
    /\ UNCHANGED <<mreq, mformat, fmt_idx, mret>>
    /\ UNCHANGED <<revision, streaming, usage_count, rpm_status, pc, enable, ret, ci,
                   entry, trace, retval>>
    /\ UNCHANGED <<wvars, rvars, evars, dvars, kvars, ovars, hvars, cvars>>

\* __t4ka3_set_mbus_fmt from its mutex_lock to its return: fmt_idx, the three
\* register programs and the orientation read (failAt: the first of the four
\* that fails, 0 for none), coarse_itg and gain reset after the programs.
FmtSet ==
    /\ mpc = "set"
    /\ input_lock = "free"
    /\ \E failAt \in 0..4 :
        LET n == nearest_resolution_index(mfmt.width, mfmt.height)
        IN  /\ fmt_idx' = n.idx
            /\ mret' = IF n.idx = 0 - 1 THEN 0 - EINVAL
                       ELSE IF failAt # 0 THEN 0 - EIO ELSE 0
            /\ coarse_itg' = IF n.idx # 0 - 1 /\ failAt \in {0, 4} THEN 0 ELSE coarse_itg
            /\ gain' = IF n.idx # 0 - 1 /\ failAt \in {0, 4} THEN 0 ELSE gain
            /\ hold_open' = IF n.idx = 0 - 1 \/ failAt = 1 THEN hold_open
                            ELSE failAt = 2
    /\ UNCHANGED vblank_max
    /\ mpc' = "idle"
    /\ mreq' = NoReq
    /\ mdist' = NoDist
    /\ UNCHANGED <<mfmt, mformat>>
    /\ UNCHANGED <<fll, digital_gain, eargs, elocal, ewrites, eentry, eret, epc>>
    /\ UNCHANGED <<wvars, svars, rvars, dvars, kvars, ovars, cvars>>

FmtNext == FmtEnter \/ FmtTry \/ FmtSet

(***************************************************************************)
(* t4ka3_init of the recovery revision: t4ka3_write_reg_array of            *)
(* t4ka3_init_config, which takes no lock.                                   *)
(***************************************************************************)
\* Bus transfers t4ka3_init_config is sent in.
InitTransfers == 2

InitIdle ==
    /\ ipc = "idle"
    /\ iwrites = 0

\* t4ka3_init up to its first transfer: __t4ka3_init, dev_info.
InitCall ==
    /\ revision = "recovery"
    /\ ipc = "idle"
    /\ ipc' = "write"
    /\ iwrites' = 0
    /\ UNCHANGED <<wvars, svars, rvars, evars, dvars, mvars, hvars, ovars, cvars>>

\* One transfer of t4ka3_write_reg_array(client, t4ka3_init_config); the call
\* returns after the last one or the first that fails.
InitWrite ==
    /\ ipc = "write"
    /\ \E ok \in BOOLEAN :
        LET last == ~ok \/ iwrites + 1 = InitTransfers
        IN  /\ iwrites' = IF last THEN 0 ELSE iwrites + 1
            /\ ipc' = IF last THEN "idle" ELSE "write"
    /\ UNCHANGED <<wvars, svars, rvars, evars, dvars, mvars, hvars, ovars, cvars>>

(***************************************************************************)
(* Control set requests of the staged revision with the values they carry:  *)
(* t4ka3_update_exposure_range, the value each register write of            *)
(* t4ka3_s_ctrl sends, and what the framework commits.                      *)
(***************************************************************************)
\* Values asked for in set requests; the framework clamps an exposure request
\* to the control's range before the handler sees it.
CtlIds == {"test_pattern", "vblank", "exposure"}
CtlVblankRequests == {T4KA3_MIN_VBLANK, T4KA3_MIN_VBLANK + 1}
CtlExposureRequests == {100, 2000}
CtlTestPatterns == {0, 1}
CtlRequests(id) ==
    CASE id = "vblank" -> CtlVblankRequests
      [] id = "exposure" -> CtlExposureRequests
      [] OTHER -> CtlTestPatterns

NoCtl == [id |-> "none", val |-> 0, old |-> 0, in_use |-> FALSE]

\* t4ka3_init_controls: exposure 0..max, default max, with
\* max = T4K3A_LINES_PER_FRAME - T4KA3_COARSE_INTEGRATION_TIME_MARGIN.
CtlIdle ==
    /\ exposure = [val |-> T4KA3_LINES_PER_FRAME - T4KA3_COARSE_INTEGRATION_TIME_MARGIN,
                   max |-> T4KA3_LINES_PER_FRAME - T4KA3_COARSE_INTEGRATION_TIME_MARGIN]
    /\ test_pattern = 0
    /\ coarse_reg = 0
    /\ creq = NoCtl
    /\ clog = <<>>
    /\ cret = 0
    /\ cpc = "idle"
    /\ deferred = "none"
    /\ allok = TRUE

\* The value in force of a control.
CtlValue(id) ==
    CASE id = "vblank" -> vblank
      [] id = "exposure" -> exposure.val
      [] id = "test_pattern" -> test_pattern
      [] OTHER -> ctrls[id].cur

\* The register writes among events, each with the value v it sends.
Valued(events, v) ==
    [i \in 1..Len(events) |->
        IF events[i].ev = "write_reg"
        THEN EvVal(events[i].fn, events[i].ev, events[i].arg, v, events[i].ret)
        ELSE events[i]]

\* The register's content after events: the value of the last write to it
\* that went through, old when there is none.
RECURSIVE RegAfter(_, _, _)
RegAfter(events, reg, old) ==
    IF events = <<>> THEN old
    ELSE LET e == events[Len(events)]
         IN  IF e.ev = "write_reg" /\ e.arg = reg /\ e.ret = 0 THEN e.val
             ELSE RegAfter(SubSeq(events, 1, Len(events) - 1), reg, old)

\* Mutant: the margin is not taken off the new maximum.
t4ka3_update_exposure_range_nomargin(vbl, in_use, failNested) ==
    LET exp_max == format.height + vbl
        clamped == IF exposure.val > exp_max THEN exp_max ELSE exposure.val
        changed == clamped # exposure.val
        nested == IF changed
                  THEN t4ka3_s_ctrl("exposure", in_use, 0, IF failNested THEN 1 ELSE 0)
                  ELSE [events |-> <<>>, ret |-> 0]
    IN  [max |-> exp_max,
         val |-> IF nested.ret = 0 THEN clamped ELSE exposure.val,
         events |-> <<EvVal("t4ka3_update_exposure_range", "modify_range", "exposure",
                            exp_max, nested.ret)>>
                    \o Valued(nested.events, clamped),
         ret |-> nested.ret]

\* t4ka3_update_exposure_range with vblank->val = vbl:
\* __v4l2_ctrl_modify_range(exposure, 0, exp_max, 1, exp_max) stores the new
\* range, clamps the exposure value to it and, when that changed the value,
\* calls t4ka3_s_ctrl for the exposure control and returns what it returned
\* (the new value is kept only when that was 0).  exp_max is never negative
\* here, so the range itself is always accepted.
t4ka3_update_exposure_range(vbl, in_use, failNested) ==
    LET exp_max == format.height + vbl - T4KA3_COARSE_INTEGRATION_TIME_MARGIN
        clamped == IF exposure.val > exp_max THEN exp_max ELSE exposure.val
        changed == clamped # exposure.val
        nested == IF changed
                  THEN t4ka3_s_ctrl("exposure", in_use, 0, IF failNested THEN 1 ELSE 0)
                  ELSE [events |-> <<>>, ret |-> 0]
    IN  [max |-> exp_max,
         val |-> IF nested.ret = 0 THEN clamped ELSE exposure.val,
         events |-> <<EvVal("t4ka3_update_exposure_range", "modify_range", "exposure",
                            exp_max, nested.ret)>>
                    \o Valued(nested.events, clamped),
         ret |-> nested.ret]

\* Mutant: the switch is entered whether or not the sensor is in use.
t4ka3_s_ctrl_valued_nocheck(id, v, in_use, strm, failAt, failNested) ==
    LET u == IF id = "vblank" THEN t4ka3_update_exposure_range(v, in_use, failNested)
             ELSE [max |-> exposure.max, val |-> exposure.val, events |-> <<>>, ret |-> 0]
        main == t4ka3_s_ctrl(id, TRUE, strm, failAt)
        w == IF id = "vblank" THEN format.height + v ELSE v
    IN  IF u.ret # 0
        THEN [events |-> u.events, ret |-> u.ret,
              exposure |-> [val |-> u.val, max |-> u.max]]
        ELSE [events |-> u.events \o Valued(main.events, w), ret |-> main.ret,
              exposure |-> [val |-> u.val, max |-> u.max]]

\* Mutant: the range update comes after the register write of the switch.
t4ka3_s_ctrl_valued_late(id, v, in_use, strm, failAt, failNested) ==
    LET u == IF id = "vblank" THEN t4ka3_update_exposure_range(v, in_use, failNested)
             ELSE [max |-> exposure.max, val |-> exposure.val, events |-> <<>>, ret |-> 0]
        main == t4ka3_s_ctrl(id, in_use, strm, failAt)
        w == IF id = "vblank" THEN format.height + v ELSE v
    IN  [events |-> Valued(main.events, w) \o u.events,
         ret |-> IF main.ret # 0 THEN main.ret ELSE u.ret,
         exposure |-> [val |-> u.val, max |-> u.max]]

\* t4ka3_s_ctrl called with ctrl->val = v: for vblank the exposure range
\* update first, its error ending the call; then the in-use test and the
\* control's register write, which for vblank sends format.height + v.
t4ka3_s_ctrl_valued(id, v, in_use, strm, failAt, failNested) ==
    LET u == IF id = "vblank" THEN t4ka3_update_exposure_range(v, in_use, failNested)
             ELSE [max |-> exposure.max, val |-> exposure.val, events |-> <<>>, ret |-> 0]
        main == t4ka3_s_ctrl(id, in_use, strm, failAt)
        w == IF id = "vblank" THEN format.height + v ELSE v
    IN  IF u.ret # 0
        THEN [events |-> u.events, ret |-> u.ret,
              exposure |-> [val |-> u.val, max |-> u.max]]
        ELSE [events |-> u.events \o Valued(main.events, w), ret |-> main.ret,
              exposure |-> [val |-> u.val, max |-> u.max]]

\* A set request for test_pattern, vblank or exposure, from taking the handler
\* lock to the return of t4ka3_s_ctrl: the handler runs when the value
\* differs from the one in force, and the value is committed when it
\* returned 0.
CtrlSetCallH(track) ==
    /\ revision = "staged"
    /\ pc = "idle"
    /\ input_lock = "free"
    /\ cpc = "idle"
    /\ \E id \in CtlIds, failAt \in 0..1, failNested \in BOOLEAN :
        \E req \in CtlRequests(id) :
        LET v == IF id = "exposure" /\ req > exposure.max THEN exposure.max ELSE req
            in_use == pm_runtime_get_if_in_use(usage_count, rpm_status)
            r == t4ka3_s_ctrl_valued(id, v, in_use, streaming, failAt, failNested)
            e == CtrlEffect(id, ctrls, in_use, r.ret)
        IN  /\ v # CtlValue(id)
            /\ creq' = [id |-> id, val |-> v, old |-> CtlValue(id), in_use |-> in_use]
            /\ clog' = r.events
            /\ cret' = r.ret
            /\ allok' = IF track THEN (allok /\ r.ret = 0) ELSE allok
            /\ vblank' = IF id = "vblank" /\ r.ret = 0 THEN v ELSE vblank
            /\ exposure' = IF id = "exposure" /\ r.ret = 0 THEN [r.exposure EXCEPT !.val = v]
                           ELSE r.exposure
            /\ test_pattern' = IF id = "test_pattern" /\ r.ret = 0 THEN v ELSE test_pattern
            /\ fll' = RegAfter(r.events, T4KA3_REG_FRAME_LENGTH_LINES, fll)
            /\ coarse_reg' = RegAfter(r.events, T4KA3_REG_COARSE_INTEGRATION_TIME, coarse_reg)
            /\ flip' = e.flip
            /\ format' = [format EXCEPT !.code = e.code]
            /\ bayer_in' = e.bayer_in
    /\ deferred' = IF pm_runtime_get_if_in_use(usage_count, rpm_status) THEN deferred
                   ELSE "pending"
    /\ input_lock' = "held"
    /\ cpc' = "ran"
    /\ UNCHANGED <<revision, streaming, usage_count, rpm_status, pc, enable, ret, ci,
                   entry, trace, retval>>
    /\ UNCHANGED <<coarse_itg, gain, digital_gain, eargs, elocal, ewrites, eentry,
                   eret, epc>>
    /\ UNCHANGED <<ctrls, pad_fmt, pad_pc>>
    /\ UNCHANGED <<wvars, rvars, mvars, kvars, ovars, hvars>>

CtrlSetCall == CtrlSetCallH(FALSE)

\* The same request in the runs that keep the history of failures.
CtrlSetCallFrm == CtrlSetCallH(TRUE)

\* The handler lock is released and the request returns cret.
CtrlSetReturn ==
    /\ cpc = "ran"
    /\ input_lock' = "free"
    /\ cpc' = "idle"
    /\ creq' = NoCtl
    /\ clog' = <<>>
    /\ cret' = 0
    /\ UNCHANGED <<exposure, test_pattern, coarse_reg, deferred, allok>>
    /\ UNCHANGED <<revision, streaming, usage_count, rpm_status, pc, enable, ret, ci,
                   entry, trace, retval>>
    /\ UNCHANGED <<wvars, rvars, evars, dvars, mvars, kvars, ovars, hvars>>

(***************************************************************************)
(* t4ka3_set_pad_format of the staged revision with the modes it selects    *)
(* and the control values and ranges it changes.  sensor->res and           *)
(* sensor->format are assigned together from the same catalog entry, whose  *)
(* height stands for both.                                                  *)
(***************************************************************************)
\* Heights of the modes requested: t4ka3_res[0] and t4ka3_res[1].
PadHeights == {496, 736}

\* Mutant: a TRY request goes on like an ACTIVE one.
PadReturnsAfterFill_never(which) == FALSE

\* if (format->which == V4L2_SUBDEV_FORMAT_TRY) return 0;
PadReturnsAfterFill(which) == which = "TRY"

\* t4ka3_set_pad_format up to the TRY test: the nearest mode is filled into
\* the caller's format with the Bayer code of the flip values; a TRY request
\* returns 0 here.
PadFormatRequest ==
    /\ revision = "staged"
    /\ pad_pc = "idle"
    /\ \E which \in {"TRY", "ACTIVE"}, h \in PadHeights :
        /\ pad_fmt' = [which |-> which, height |-> h,
                       code |-> t4ka3_set_bayer_order(ctrls.vflip.val, ctrls.hflip.val),
                       vflip |-> ctrls.vflip.val, hflip |-> ctrls.hflip.val]
        /\ pad_pc' = IF PadReturnsAfterFill(which) THEN "idle" ELSE "filled"
    /\ UNCHANGED <<ctrls, flip, format, bayer_in, vblank>>
    /\ UNCHANGED <<wvars, svars, rvars, evars, mvars, kvars, ovars, hvars, cvars>>

\* mutex_lock; sensor->res = res; sensor->format = *fmt;
PadFormatAssign ==
    /\ pad_pc = "filled"
    /\ input_lock = "free"
    /\ input_lock' = "held"
    /\ format' = [height |-> pad_fmt.height, code |-> pad_fmt.code]
    /\ bayer_in' = [vflip |-> pad_fmt.vflip, hflip |-> pad_fmt.hflip]
    /\ pad_pc' = "stored"
    /\ UNCHANGED <<ctrls, flip, vblank, pad_fmt>>
    /\ UNCHANGED <<revision, streaming, usage_count, rpm_status, pc, enable, ret, ci,
                   entry, trace, retval>>
    /\ UNCHANGED <<wvars, rvars, evars, mvars, kvars, ovars, hvars, cvars>>

\* The rest of t4ka3_set_pad_format: the vblank range for the new height (the
\* vblank values of the checked runs lie inside every mode's range, so the
\* range change itself never moves the value); __v4l2_ctrl_s_ctrl(vblank,
\* def), which calls t4ka3_s_ctrl when def is not the value in force;
\* t4ka3_update_exposure_range, which after that call finds range and value
\* as the call left them; coarse_itg = gain = 0 when nothing failed; unlock.
\* clog and cret take what the call did and what it returns.
PadFormatRanges ==
    /\ pad_pc = "stored"
    /\ \E failAt \in 0..1, failNested \in BOOLEAN :
        LET max == T4KA3_MAX_VBLANK - format.height
            def == T4KA3_LINES_PER_FRAME - format.height
            in_use == pm_runtime_get_if_in_use(usage_count, rpm_status)
            called == def # vblank
            r == t4ka3_s_ctrl_valued("vblank", def, in_use, streaming, failAt, failNested)
            u == t4ka3_update_exposure_range(vblank, in_use, failNested)
            events == IF called THEN r.events ELSE u.events
            result == IF called THEN r.ret ELSE u.ret
            handler == called \/ Len(u.events) > 1
            e == CtrlEffect("vblank", ctrls, in_use, result)
        IN  /\ vblank_max' = max
            /\ vblank' = IF called /\ r.ret = 0 THEN def ELSE vblank
            /\ exposure' = IF called THEN r.exposure ELSE [val |-> u.val, max |-> u.max]
            /\ fll' = RegAfter(events, T4KA3_REG_FRAME_LENGTH_LINES, fll)
            /\ coarse_reg' = RegAfter(events, T4KA3_REG_COARSE_INTEGRATION_TIME, coarse_reg)
            /\ format' = IF handler THEN [format EXCEPT !.code = e.code] ELSE format
            /\ bayer_in' = IF handler THEN e.bayer_in ELSE bayer_in
            /\ coarse_itg' = IF result = 0 THEN 0 ELSE coarse_itg
            /\ gain' = IF result = 0 THEN 0 ELSE gain
            /\ clog' = events
            /\ cret' = result
    /\ input_lock' = "free"
    /\ pad_pc' = "idle"
    /\ UNCHANGED <<ctrls, flip, pad_fmt, hold_open>>
    /\ UNCHANGED <<test_pattern, creq, cpc, deferred, allok>>
    /\ UNCHANGED <<digital_gain, eargs, elocal, ewrites, eentry, eret, epc>>
    /\ UNCHANGED <<revision, streaming, usage_count, rpm_status, pc, enable, ret, ci,
                   entry, trace, retval>>
    /\ UNCHANGED <<wvars, rvars, mvars, kvars, ovars>>

\* CtrlSetup with the values the writes carry: each control is replayed with
\* the value in force.
CtrlSetupValued ==
    /\ pc = "ctrl_setup"
    /\ \E failAt \in 0..2, failNested \in BOOLEAN :
        LET id == CtrlOrder[ci]
            in_use == pm_runtime_get_if_in_use(usage_count, rpm_status)
            c == IF id \in FlipIds THEN [ctrls EXCEPT ![id].val = ctrls[id].cur]
                 ELSE ctrls
            r == t4ka3_s_ctrl_valued(id, CtlValue(id), in_use, streaming, failAt,
                                     failNested)
            e == CtrlEffect(id, c, in_use, r.ret)
            last == ci = Len(CtrlOrder)
        IN  /\ Step(IF r.ret # 0 THEN "error_powerdown"
                    ELSE IF last THEN "param_update" ELSE "ctrl_setup",
                    r.ret, r.events)
            /\ ci' = IF r.ret # 0 \/ last THEN 1 ELSE ci + 1
            /\ ctrls' = c
            /\ flip' = e.flip
            /\ format' = [format EXCEPT !.code = e.code]
            /\ bayer_in' = e.bayer_in
            /\ exposure' = r.exposure
            /\ fll' = RegAfter(r.events, T4KA3_REG_FRAME_LENGTH_LINES, fll)
            /\ coarse_reg' = RegAfter(r.events, T4KA3_REG_COARSE_INTEGRATION_TIME, coarse_reg)
            /\ deferred' = IF last /\ r.ret = 0 /\ deferred = "pending" THEN "replayed"
                           ELSE deferred
    /\ UNCHANGED <<revision, streaming, input_lock, usage_count, rpm_status,
                   enable, entry, retval>>
    /\ UNCHANGED <<vblank, pad_fmt, pad_pc>>
    /\ UNCHANGED <<test_pattern, creq, clog, cret, cpc, allok>>
    /\ UNCHANGED <<coarse_itg, gain, digital_gain, eargs, elocal, ewrites, eentry,
                   eret, epc>>
    /\ UNCHANGED <<wvars, rvars, mvars, kvars, ovars, hvars>>

(***************************************************************************)
(* drivers/input/touchscreen.c: the axis setup made from the device        *)
(* properties, and the positions reported through it.  One pair of axes is *)
(* modelled, the pair the parse call and the report call both name.        *)
(***************************************************************************)

\* Largest touchscreen-size-x / touchscreen-size-y property of the runs.
MaxSize == 4

\* touchscreen_get_prop_u32 found neither a device property nor a setting.
NoProperty == 0 - 1

PropMin == {NoProperty, 0, 1}
PropSize == {NoProperty} \cup ((MaxSize - 1)..MaxSize)

\* The axes as the driver set them up before the parse call.
TouchDefaults ==
    [x |-> [minimum |-> 0, maximum |-> MaxSize - 1],
     y |-> [minimum |-> 0, maximum |-> MaxSize - 2]]

NoPos == [set |-> FALSE]

TouchIdle ==
    /\ absinfo = TouchDefaults
    /\ prop = [max_x |-> 0, max_y |-> 0, invert_x |-> FALSE, invert_y |-> FALSE,
               swap_x_y |-> FALSE]
    /\ ts_orig = [set |-> FALSE]
    /\ ts_pos = NoPos

\* The min / size properties of one axis: touchscreen_get_prop_u32 falls back
\* to the axis' current minimum and maximum + 1, touchscreen_set_params is
\* called with maximum - 1 when one of them is present.
AxisParams(axis, min_p, size_p) ==
    LET minimum == IF min_p = NoProperty THEN axis.minimum ELSE min_p
        maximum == IF size_p = NoProperty THEN axis.maximum + 1 ELSE size_p
    IN  IF min_p # NoProperty \/ size_p # NoProperty
        THEN [minimum |-> minimum, maximum |-> maximum - 1]
        ELSE axis

\* if (prop->invert_x) { absinfo->maximum -= absinfo->minimum; absinfo->minimum = 0; }
AxisInverted(axis, invert) ==
    IF invert THEN [minimum |-> 0, maximum |-> axis.maximum - axis.minimum] ELSE axis

\* touchscreen_parse_properties_with_settings with a non-NULL prop.
touchscreen_parse_properties_with_settings(axis, min_x, size_x, min_y, size_y, invert_x, invert_y, swap_x_y) ==
    LET ax == AxisParams(axis.x, min_x, size_x)
        ay == AxisParams(axis.y, min_y, size_y)
        ix == AxisInverted(ax, invert_x)
        iy == AxisInverted(ay, invert_y)
    IN  [orig    |-> [set |-> TRUE, x |-> ax, y |-> ay],
         prop    |-> [max_x |-> ax.maximum, max_y |-> ay.maximum,
                      invert_x |-> invert_x, invert_y |-> invert_y,
                      swap_x_y |-> swap_x_y],
         absinfo |-> IF swap_x_y THEN [x |-> iy, y |-> ix] ELSE [x |-> ix, y |-> iy]]

\* Mutant: the axes are swapped before the inversion is applied.
touchscreen_apply_prop_to_x_y_swapfirst(p, x, y) ==
    LET sx == IF p.swap_x_y THEN y ELSE x
        sy == IF p.swap_x_y THEN x ELSE y
    IN  [x |-> IF p.invert_x THEN p.max_x - sx ELSE sx,
         y |-> IF p.invert_y THEN p.max_y - sy ELSE sy]

\* touchscreen_apply_prop_to_x_y; x and y are at most max_x and max_y in the
\* runs, so the unsigned subtractions do not wrap.
touchscreen_apply_prop_to_x_y(p, x, y) ==
    LET ix == IF p.invert_x THEN p.max_x - x ELSE x
        iy == IF p.invert_y THEN p.max_y - y ELSE y
    IN  IF p.swap_x_y THEN [x |-> iy, y |-> ix] ELSE [x |-> ix, y |-> iy]

\* The parse call of a driver's probe, on axes whose range is not empty.
TouchParse ==
    /\ ~ts_orig.set
    /\ \E min_x \in PropMin, size_x \in PropSize, min_y \in PropMin, size_y \in PropSize,
          invert_x \in BOOLEAN, invert_y \in BOOLEAN, swap_x_y \in BOOLEAN :
        LET r == touchscreen_parse_properties_with_settings(
                     absinfo, min_x, size_x, min_y, size_y, invert_x, invert_y, swap_x_y)
        IN  /\ r.orig.x.minimum <= r.orig.x.maximum
            /\ r.orig.y.minimum <= r.orig.y.maximum
            /\ absinfo' = r.absinfo
            /\ prop' = r.prop
            /\ ts_orig' = r.orig
    /\ UNCHANGED ts_pos
    /\ UNCHANGED <<wvars, svars, rvars, evars, dvars, mvars, kvars, hvars, lvars, cvars>>

\* A raw position inside the configured ranges goes through fn.
TouchPosition(fn) ==
    /\ ts_orig.set
    /\ \E x \in ts_orig.x.minimum..ts_orig.x.maximum,
          y \in ts_orig.y.minimum..ts_orig.y.maximum :
        LET r == touchscreen_apply_prop_to_x_y(prop, x, y)
        IN  ts_pos' = [set |-> TRUE, fn |-> fn, raw |-> [x |-> x, y |-> y],
                       x |-> r.x, y |-> r.y]
    /\ UNCHANGED <<absinfo, prop, ts_orig>>
    /\ UNCHANGED <<wvars, svars, rvars, evars, dvars, mvars, kvars, hvars, lvars, cvars>>

\* touchscreen_report_pos: input_report_abs of the adjusted x and y.
TouchReportPos == TouchPosition("touchscreen_report_pos")

\* touchscreen_set_mt_pos: pos->x and pos->y are the adjusted x and y.
TouchSetMtPos == TouchPosition("touchscreen_set_mt_pos")

TchNext == TouchParse \/ TouchReportPos \/ TouchSetMtPos

(***************************************************************************)
(* drivers/leds/leds-tps68470.c: the two LEDs of the TPS68470.             *)
(***************************************************************************)

\* enum led_brightness values named by set_ledb_current.
LED_OFF == 0
LED_ON == 1
LED_HALF == 127
LED_FULL == 255

\* The enable bit of LED A in ILEDCTL (linux/mfd/tps68470.h, BIT(2)).
TPS68470_ILEDCTL_ENA == 4

LedNames == {"tps68470-ileda", "tps68470-iledb"}

\* Brightness values the LED core passes: at most max_brightness, which is 1
\* for LED A and 255 for LED B.
LedBrightness(name) ==
    IF name = "tps68470-ileda" THEN {LED_OFF, LED_ON}
    ELSE {LED_OFF, LED_ON, LED_ON + 1, LED_HALF, LED_FULL}

NoLedCall == [set |-> FALSE]

LedIdle ==
    /\ brightness_a = 0
    /\ brightness_b = 0
    /\ led_set = NoLedCall
    /\ led_get = NoLedCall

OtherIdle == TouchIdle /\ LedIdle

\* set_ledb_current: the switch has a case for the brightness.
LedbCurrentKnown(brightness) == brightness \in {LED_HALF, LED_FULL, LED_ON, LED_OFF}

\* tps68470_brightness_set; currentok and enableok are the outcomes of the
\* regmap_update_bits calls of set_ledb_current and of the function itself.
tps68470_brightness_set(name, brightness, a, b, currentok, enableok) ==
    IF name = "tps68470-ileda"
    THEN [a |-> IF brightness # 0 THEN TPS68470_ILEDCTL_ENA ELSE 0,
          b |-> b,
          ret |-> IF enableok THEN 0 ELSE 0 - EIO]
    ELSE IF ~LedbCurrentKnown(brightness)
    THEN [a |-> a, b |-> b, ret |-> 0 - EINVAL]
    ELSE [a |-> a,
          b |-> brightness,
          ret |-> IF ~currentok THEN 0 - EIO
                  ELSE IF enableok THEN 0 ELSE 0 - EIO]

\* What a read outside struct tps68470_led_data may find.
LedOutside == {0, LED_ON, TPS68470_ILEDCTL_ENA, LED_FULL}

\* tps68470_brightness_get: data is container_of(led_cdev, ..., ledb_cdev) for
\* both names; for LED A that is not the structure led_cdev lies in, and
\* data->brightness_a is read from memory before it.
tps68470_brightness_get(name, b) ==
    IF name = "tps68470-iledb" THEN {b} ELSE LedOutside

LedSet ==
    /\ \E name \in LedNames, currentok \in BOOLEAN, enableok \in BOOLEAN :
        \E brightness \in LedBrightness(name) :
            LET r == tps68470_brightness_set(name, brightness, brightness_a,
                                             brightness_b, currentok, enableok)
            IN  /\ brightness_a' = r.a
                /\ brightness_b' = r.b
                /\ led_set' = [set |-> TRUE, name |-> name, brightness |-> brightness,
                               ret |-> r.ret, a |-> brightness_a, b |-> brightness_b]
    /\ led_get' = NoLedCall
    /\ UNCHANGED <<wvars, svars, rvars, evars, dvars, mvars, kvars, hvars, tvars, cvars>>

LedGet ==
    /\ \E name \in LedNames :
        \E val \in tps68470_brightness_get(name, brightness_b) :
            led_get' = [set |-> TRUE, name |-> name, val |-> val]
    /\ UNCHANGED <<brightness_a, brightness_b, led_set>>
    /\ UNCHANGED <<wvars, svars, rvars, evars, dvars, mvars, kvars, hvars, tvars, cvars>>

LedNext == LedSet \/ LedGet

Init == StreamInit /\ WraIdle /\ RegIdle /\ ExpIdle /\ DevIdle /\ FmtIdle /\ InitIdle /\ HoldIdle /\ OtherIdle /\ CtlIdle

Next ==
    \/ SStreamEnter
    \/ PowerUp
    \/ InitConfig
    \/ ParamHold
    \/ ModeRegs
    \/ CtrlSetup
    \/ ParamUpdate
    \/ StreamingReg
    \/ Suspend
    \/ PowerDown
    \/ ErrorPowerdown
    \/ SStreamReturn
    \/ ErrorUnlock
    \/ Detect
    \/ RecoveryPut
    \/ RecoveryGet
    \/ RecoveryHold
    \/ RecoveryOrientation
    \/ RecoveryMode
    \/ RecoveryUpdate
    \/ RecFlipCtrl
    \/ AutoSuspend

Spec == Init /\ [][Next]_vars

\* t4ka3_write_reg_array run on its own over one of the Programs.
WraInit ==
    /\ WraStart
    /\ RegIdle
    /\ ExpIdle
    /\ DevIdle
    /\ FmtIdle /\ InitIdle /\ HoldIdle /\ OtherIdle /\ CtlIdle
    /\ revision = "staged"
    /\ streaming = 0
    /\ input_lock = "free"
    /\ usage_count = 0
    /\ rpm_status = "active"
    /\ pc = "idle"
    /\ enable = 0
    /\ ret = 0
    /\ ci = 1
    /\ entry = [streaming |-> 0, usage_count |-> 0, rpm_status |-> "active",
              height |-> 496]
    /\ trace = <<>>
    /\ retval = 0

SpecWra == WraInit /\ [][WraNext]_vars

\* The staged revision with control sets and set_pad_format between and
\* beside the stream operations.
DevInit == Init /\ revision = "staged"

DevNext ==
    \/ SStreamEnter
    \/ PowerUp
    \/ InitConfig
    \/ ParamHold
    \/ ModeRegs
    \/ CtrlSetup
    \/ ParamUpdate
    \/ StreamingReg
    \/ Suspend
    \/ PowerDown
    \/ ErrorPowerdown
    \/ SStreamReturn
    \/ ErrorUnlock
    \/ AutoSuspend
    \/ FlipCtrlSet
    \/ OtherCtrlSet
    \/ PadFormatFill
    \/ PadFormatStore

SpecDev == DevInit /\ [][DevNext]_vars

\* t4ka3_read_reg / t4ka3_write_reg run on their own.
RegInit == RegStart /\ StreamInit /\ WraIdle /\ ExpIdle /\ DevIdle /\ FmtIdle /\ InitIdle /\ HoldIdle /\ OtherIdle /\ CtlIdle

SpecReg == RegInit /\ [][RegNext]_vars

\* t4ka3_set_exposure calls and vblank control sets on an idle sensor.
SpecExp == Init /\ [][ExpNext]_vars

\* t4ka3_s_stream and t4ka3_set_pad_format requests on the staged revision.
PadNext ==
    \/ SStreamEnter
    \/ PowerUp
    \/ InitConfig
    \/ ParamHold
    \/ ModeRegs
    \/ CtrlSetupValued
    \/ ParamUpdate
    \/ StreamingReg
    \/ Suspend
    \/ PowerDown
    \/ ErrorPowerdown
    \/ SStreamReturn
    \/ ErrorUnlock
    \/ AutoSuspend
    \/ PadFormatRequest
    \/ PadFormatAssign
    \/ PadFormatRanges
SpecPad == DevInit /\ [][PadNext]_vars

\* t4ka3_set_exposure calls that come through the ioctl.
IocNext ==
    \/ SExposureEnter
    \/ SetExposureWrite
    \/ SetExposureCommit
    \/ SetExposureReturn
SpecIoc == Init /\ [][IocNext]_vars

\* Set-format requests on the recovery revision.
FmtInit == Init /\ revision = "recovery"

\* t4ka3_s_stream and control set requests on the staged revision, values
\* tracked.
CtlInit == Init /\ revision = "staged"
CtlNext ==
    \/ SStreamEnter
    \/ PowerUp
    \/ InitConfig
    \/ ParamHold
    \/ ModeRegs
    \/ CtrlSetupValued
    \/ ParamUpdate
    \/ StreamingReg
    \/ Suspend
    \/ PowerDown
    \/ ErrorPowerdown
    \/ SStreamReturn
    \/ ErrorUnlock
    \/ AutoSuspend
    \/ CtrlSetCall
    \/ CtrlSetReturn
SpecCtl == CtlInit /\ [][CtlNext]_vars

\* The state a first successful t4ka3_s_stream(sd, 1) leaves: the sensor in
\* use and streaming, the controls replayed (the vblank replay has lowered the
\* exposure maximum and value to format.height + vblank - 6 and written it).
EnabledHeight == CHOOSE h \in FormatHeights : TRUE
EnabledVblank == T4KA3_LINES_PER_FRAME - T4KA3_RES_HEIGHT_MAX
EnabledExposure == EnabledHeight + EnabledVblank - T4KA3_COARSE_INTEGRATION_TIME_MARGIN
EnabledTrace ==
    LET S(ev, arg) == Ev("t4ka3_s_stream", ev, arg, 0)
        C(id, v) == Valued(t4ka3_s_ctrl(id, TRUE, 0, 0).events, v)
    IN  << S("mutex_lock", "input_lock"), S("pm_runtime_get_sync", "dev"),
           S("write_reg_array", "t4ka3_init_config"),
           S("write_reg_array", "t4ka3_param_hold"),
           S("write_reg_array", "res->regs") >>
        \o C("vflip", 0) \o C("hflip", 0) \o C("test_pattern", 0)
        \o << EvVal("t4ka3_update_exposure_range", "modify_range", "exposure",
                    EnabledExposure, 0) >>
        \o C("exposure", EnabledExposure)
        \o C("vblank", EnabledHeight + EnabledVblank)
        \o C("exposure", EnabledExposure)
        \o << S("write_reg_array", "t4ka3_param_update"),
              S("write_reg_array", "t4ka3_streaming"),
              S("mutex_unlock", "input_lock") >>

FrmInit ==
    /\ revision = "staged"
    /\ streaming = 1
    /\ input_lock = "free"
    /\ usage_count = 1
    /\ rpm_status = "active"
    /\ pc = "idle"
    /\ enable = 1
    /\ ret = 0
    /\ ci = 1
    /\ entry = [streaming |-> 0, usage_count |-> 0, rpm_status |-> "active",
              height |-> 496]
    /\ trace = EnabledTrace
    /\ retval = 0
    /\ WraIdle /\ RegIdle /\ DevIdle /\ FmtIdle /\ InitIdle /\ HoldIdle /\ OtherIdle
    /\ fll = EnabledHeight + EnabledVblank
    /\ coarse_itg = 0
    /\ gain = 0
    /\ digital_gain = 0
    /\ eargs = [coarse_itg |-> 0, gain |-> 0, digitalgain |-> 0]
    /\ elocal = [coarse_itg |-> 0, gain |-> 0, lines_per_frame |-> 0]
    /\ ewrites = <<>>
    /\ eentry = [fll |-> T4KA3_LINES_PER_FRAME, coarse_itg |-> 0, gain |-> 0,
                 digital_gain |-> 0]
    /\ eret = 0
    /\ epc = "off"
    /\ exposure = [val |-> EnabledExposure, max |-> EnabledExposure]
    /\ test_pattern = 0
    /\ coarse_reg = EnabledExposure
    /\ creq = NoCtl
    /\ clog = <<>>
    /\ cret = 0
    /\ cpc = "idle"
    /\ deferred = "none"
    /\ allok = TRUE

\* The t4ka3_set_exposure ioctl and control set requests on a streaming sensor.
FrmNext ==
    \/ SetExposureEnterFrm
    \/ SetExposureWrite
    \/ SetExposureCommit
    \/ SetExposureReturnFrm
    \/ CtrlSetCallFrm
    \/ CtrlSetReturn
SpecFrm == FrmInit /\ [][FrmNext]_vars

SpecFmt == FmtInit /\ [][FmtNext]_vars

\* Positions reported through one parsed axis setup.
SpecTch == Init /\ [][TchNext]_vars

\* brightness_set and brightness_get calls on the two LEDs.
SpecLed == Init /\ [][LedNext]_vars

\* t4ka3_s_stream, the flip controls and t4ka3_init of the recovery revision,
\* each called from its own thread.
ConInit == Init /\ revision = "recovery"
ConNext ==
    \/ SStreamEnter
    \/ PowerUp
    \/ Detect
    \/ RecoveryPut
    \/ RecoveryGet
    \/ RecoveryHold
    \/ RecoveryOrientation
    \/ RecoveryMode
    \/ RecoveryUpdate
    \/ StreamingReg
    \/ Suspend
    \/ PowerDown
    \/ ErrorPowerdown
    \/ SStreamReturn
    \/ ErrorUnlock
    \/ AutoSuspend
    \/ RecFlipCtrl
    \/ InitCall
    \/ InitWrite
SpecCon == ConInit /\ [][ConNext]_vars

(***************************************************************************)
(* What a register program asks for, read off the list entry by entry, and  *)
(* what a run put on the bus, read off the transfers byte by byte.          *)
(***************************************************************************)
IsDelay(op) == BitAnd(op.type, T4KA3_TOK_MASK) = T4KA3_TOK_DELAY
IsWrite(op) == op.type \in {T4KA3_8BIT, T4KA3_16BIT}
OpSize(op) == IF op.type = T4KA3_8BIT THEN 1 ELSE 2

\* The write entries of a program, in list order.
WriteOps(rl) == SelectSeq(rl, IsWrite)
HasDelay(rl) == \E i \in 1..Len(rl) : IsDelay(rl[i])

RECURSIVE TotalBytes(_)
TotalBytes(ops) ==
    IF ops = <<>> THEN 0 ELSE OpSize(Head(ops)) + TotalBytes(Tail(ops))

\* Number of places where a write does not start where the previous one ended.
GapCount(ops) ==
    Cardinality({i \in 1..(Len(ops) - 1) : ops[i + 1].sreg # ops[i].sreg + OpSize(ops[i])})

\* Executing the entries one by one: an 8-bit write stores (u8)val at sreg, a
\* 16-bit write stores the high byte at sreg and the low byte at sreg + 1.
OpEvent(op) ==
    IF IsDelay(op) THEN <<[kind |-> "sleep", ms |-> op.val]>>
    ELSE IF op.type = T4KA3_8BIT
    THEN <<[kind |-> "byte", addr |-> op.sreg, val |-> op.val % 256]>>
    ELSE <<[kind |-> "byte", addr |-> op.sreg, val |-> (op.val \div 256) % 256],
           [kind |-> "byte", addr |-> op.sreg + 1, val |-> op.val % 256]>>

RECURSIVE OpEvents(_)
OpEvents(rl) ==
    IF rl = <<>> \/ Head(rl).type = T4KA3_TOK_TERM THEN <<>>
    ELSE OpEvent(Head(rl)) \o OpEvents(Tail(rl))

\* A transfer as the sensor decodes it: big-endian start address, then data
\* bytes for consecutive registers.
BurstAddr(x) == x.bytes[1] * 256 + x.bytes[2]
BurstLen(x) == Len(x.bytes) - 2
BurstEvents(x) ==
    [j \in 1..BurstLen(x) |->
        [kind |-> "byte", addr |-> BurstAddr(x) + j - 1, val |-> x.bytes[j + 2]]]

RECURSIVE WireEvents(_)
WireEvents(w) ==
    IF w = <<>> THEN <<>>
    ELSE (IF Head(w).kind = "xfer" THEN BurstEvents(Head(w)) ELSE <<Head(w)>>)
         \o WireEvents(Tail(w))

IsByte(e) == e.kind = "byte"
IsXfer(e) == e.kind = "xfer"
Xfers(w) == SelectSeq(w, IsXfer)
IsPrefix(a, b) == Len(a) <= Len(b) /\ SubSeq(b, 1, Len(a)) = a

WraDoneOk == wpc = "done" /\ err = 0

\* C7: in a failure-free run, two transfers that follow each other with no
\* sleep between them and with contiguous addresses are split only because
\* the first one holds at least 28 data bytes; a contiguous program of 1..28
\* bytes goes out as one transfer, and with exactly one address gap as two.
C7_BurstBoundaries ==
    WraDoneOk =>
        /\ \A i \in 1..(Len(wire) - 1) :
              (/\ wire[i].kind = "xfer"
               /\ wire[i + 1].kind = "xfer"
               /\ BurstAddr(wire[i + 1]) = BurstAddr(wire[i]) + BurstLen(wire[i]))
              => BurstLen(wire[i]) >= T4KA3_MAX_WRITE_BUF_SIZE - 2
        /\ LET ops == WriteOps(reglist)
               small == /\ ~HasDelay(reglist)
                        /\ TotalBytes(ops) >= 1
                        /\ TotalBytes(ops) <= T4KA3_MAX_WRITE_BUF_SIZE - 2
           IN  /\ (small /\ GapCount(ops) = 0) => Len(Xfers(wire)) = 1
               /\ (small /\ GapCount(ops) = 1) => Len(Xfers(wire)) = 2

C7_Witness ==
    /\ WraDoneOk
    /\ ~HasDelay(reglist)
    /\ TotalBytes(WriteOps(reglist)) = T4KA3_MAX_WRITE_BUF_SIZE - 2
    /\ GapCount(WriteOps(reglist)) = 1
    /\ Len(Xfers(wire)) = 2

\* C8: in a failure-free run the bytes the transfers carry, decoded at
\* consecutive addresses from each transfer's big-endian start address, are
\* the byte writes of the program's entries, in list order.
C8_SameByteWrites ==
    WraDoneOk =>
        SelectSeq(WireEvents(wire), IsByte) = SelectSeq(OpEvents(reglist), IsByte)

C8_Witness ==
    /\ WraDoneOk
    /\ Len(Xfers(wire)) >= 3
    /\ \E i, j \in 1..(Len(reglist) - 1) :
          reglist[i].type = T4KA3_8BIT /\ reglist[j].type = T4KA3_16BIT

\* C9: a transfer that fails is the last thing the call does on the bus, the
\* call returns -EIO, every transfer before it went through, and what was
\* transmitted (the failed transfer included) is a prefix of the program.
C9_FailStops ==
    \A k \in 1..Len(wire) :
        (wire[k].kind = "xfer" /\ ~wire[k].ok) =>
            /\ k = Len(wire)
            /\ wpc = "done"
            /\ err = 0 - EIO
            /\ \A i \in 1..(k - 1) : wire[i].kind = "xfer" => wire[i].ok
            /\ IsPrefix(WireEvents(wire), OpEvents(reglist))

C9_Witness ==
    /\ wpc = "done"
    /\ err = 0 - EIO
    /\ Len(Xfers(wire)) = 3
    /\ ~wire[Len(wire)].ok
    /\ next < Len(reglist) - 1

\* C10: the fill index never exceeds 29, it is at most 27 when an entry is
\* about to be stored, and every transfer carries 1..29 stored data bytes.
C10_BufferBounds ==
    /\ ctrl.index >= 0
    /\ ctrl.index <= T4KA3_MAX_WRITE_BUF_SIZE - 1
    /\ wpc = "buf" => ctrl.index <= T4KA3_MAX_WRITE_BUF_SIZE - 3
    /\ \A k \in 1..Len(wire) :
          wire[k].kind = "xfer" =>
              /\ BurstLen(wire[k]) >= 1
              /\ BurstLen(wire[k]) <= T4KA3_MAX_WRITE_BUF_SIZE - 1
              /\ \A j \in 1..Len(wire[k].bytes) : wire[k].bytes[j] \in 0..255

C10_Witness ==
    /\ wpc = "done"
    /\ \E k \in 1..Len(wire) :
          wire[k].kind = "xfer" /\ BurstLen(wire[k]) = T4KA3_MAX_WRITE_BUF_SIZE - 1

(***************************************************************************)
(* t4ka3_s_stream: what a finished call did.                                *)
(***************************************************************************)
CallDone == pc = "idle" /\ trace # <<>>
EnableFromStopped == enable = 1 /\ entry.streaming = 0
DisableFromStreaming == enable = 0 /\ entry.streaming = 1
SameStateRequest == trace # <<>> /\ entry.streaming = enable

IsBus(e) == e.ev \in {"write_reg_array", "write_reg", "read_reg"}
IsOwnPm(e) ==
    e.fn = "t4ka3_s_stream" /\ e.ev \in {"pm_runtime_get_sync", "pm_runtime_put"}
IsPm(e) ==
    e.ev \in {"pm_runtime_get_sync", "pm_runtime_put", "pm_runtime_get_if_in_use"}
BusOf(t) == SelectSeq(t, IsBus)
OwnPmOf(t) == SelectSeq(t, IsOwnPm)

\* The power reference was acquired: pm_runtime_get_sync returned 0.
PowerAcquired ==
    Len(trace) >= 2 /\ trace[2].ev = "pm_runtime_get_sync" /\ trace[2].ret = 0
\* A register-programming step of the call failed.
BusStepFailed == \E i \in 1..Len(trace) : IsBus(trace[i]) /\ trace[i].ret # 0

\* C1: a stream-enable from Stopped that acquired the power reference and
\* did not reach Streaming returns a non-zero value.
C1_EnableFailureReturnsError ==
    (CallDone /\ EnableFromStopped /\ PowerAcquired /\ streaming = 0) => retval # 0

\* C2: in the staged revision, a stream-enable from Stopped that acquired the
\* power reference and then had a register step fail ends with streaming = 0,
\* with that one reference put exactly once, after the failed step and before
\* the unlock, and the usage counter back at its value on entry.
C2_EnableFailureUnwinds ==
    (CallDone /\ revision = "staged" /\ EnableFromStopped /\ PowerAcquired
        /\ BusStepFailed) =>
        /\ streaming = 0
        /\ usage_count = entry.usage_count
        /\ LET own == OwnPmOf(trace)
               n == Len(trace)
           IN  /\ Len(own) = 2
               /\ own[1].ev = "pm_runtime_get_sync"
               /\ own[2].ev = "pm_runtime_put"
               /\ trace[n].ev = "mutex_unlock"
               /\ trace[n - 1] = own[2]
               /\ \E i \in 2..(n - 2) :
                     /\ IsBus(trace[i]) /\ trace[i].ret # 0
                     /\ \A j \in (i + 1)..n : ~IsBus(trace[j])
               /\ \A i \in 2..(n - 1) : trace[i].ev # "mutex_unlock"

C2_Witness ==
    /\ CallDone /\ revision = "staged" /\ EnableFromStopped /\ PowerAcquired
    /\ \E i \in 1..Len(trace) :
          trace[i].fn = "t4ka3_s_ctrl" /\ IsBus(trace[i]) /\ trace[i].ret # 0

\* C3: a call that asks for the state already held only takes and releases
\* the lock: no register transaction, no power acquire or release, streaming
\* and the usage counter as on entry.
C3_SameStateNoEffect ==
    SameStateRequest =>
        /\ \A i \in 1..Len(trace) : trace[i].ev \in {"mutex_lock", "mutex_unlock"}
        /\ streaming = entry.streaming
        /\ usage_count = entry.usage_count
        /\ pc = "idle" => Len(trace) = 2

C3_Witness ==
    /\ CallDone /\ enable = 1 /\ entry.streaming = 1 /\ streaming = 1
    /\ Len(trace) = 2

\* C4: a call that asks for the state already held returns 0.
C4_SameStateReturnsZero ==
    (CallDone /\ SameStateRequest) => retval = 0

\* The registers the replayed controls write.
ReplayRegs ==
    {T4KA3_REG_IMG_ORIENTATION, T4KA3_REG_TEST_PATTERN_MODE,
     T4KA3_REG_FRAME_LENGTH_LINES, T4KA3_REG_COARSE_INTEGRATION_TIME}

\* C5: in the staged revision, a stream-enable that reaches Streaming has
\* issued, in this order and all successfully: the init program, group hold
\* (0x0104 = 1), the mode's program, the control replay, group-hold release
\* (0x0104 = 0), stream-enable (0x0100 = 1); and while streaming is 1 after
\* an enable from Stopped, the call's last register transaction is that
\* successful stream-enable write.
C5_EnableOrder ==
    /\ (CallDone /\ revision = "staged" /\ EnableFromStopped /\ streaming = 1) =>
        LET bus == BusOf(trace)
            n == Len(bus)
        IN  /\ n > 5
            /\ \A i \in 1..n : bus[i].ret = 0
            /\ bus[1].arg = "t4ka3_init_config"
            /\ bus[2].arg = "t4ka3_param_hold"
            /\ bus[3].arg = "res->regs"
            /\ \A i \in 4..(n - 2) : bus[i].fn = "t4ka3_s_ctrl"
            /\ {bus[i].arg : i \in 4..(n - 2)} = ReplayRegs
            /\ bus[n - 1].arg = "t4ka3_param_update"
            /\ bus[n].arg = "t4ka3_streaming"
            /\ \A i \in {1, 2, 3, n - 1, n} :
                  bus[i].fn = "t4ka3_s_stream" /\ bus[i].ev = "write_reg_array"
    /\ (trace # <<>> /\ EnableFromStopped /\ streaming = 1) =>
        LET bus == BusOf(trace)
        IN  /\ bus # <<>>
            /\ bus[Len(bus)].arg = "t4ka3_streaming"
            /\ bus[Len(bus)].ret = 0
    /\ OpEvents(t4ka3_param_hold) = <<[kind |-> "byte", addr |-> 260, val |-> 1]>>
    /\ OpEvents(t4ka3_param_update) = <<[kind |-> "byte", addr |-> 260, val |-> 0]>>
    /\ OpEvents(t4ka3_streaming) = <<[kind |-> "byte", addr |-> 256, val |-> 1]>>

C5_Witness ==
    CallDone /\ revision = "staged" /\ EnableFromStopped /\ streaming = 1 /\ retval = 0

\* C6: a stream-disable from Streaming first attempts the stream-disable
\* write (0x0100 = 0); whether it succeeds or fails, exactly one
\* pm_runtime_put follows and the unlock comes right after it.
C6_DisableAlwaysPuts ==
    /\ (CallDone /\ DisableFromStreaming) =>
        LET n == Len(trace)
        IN  /\ n = 4
            /\ trace[2].ev = "write_reg_array" /\ trace[2].arg = "t4ka3_suspend"
            /\ trace[3].ev = "pm_runtime_put"
            /\ trace[4].ev = "mutex_unlock"
    /\ (trace # <<>> /\ DisableFromStreaming /\ Len(trace) >= 2) =>
        (trace[2].ev = "write_reg_array" /\ trace[2].arg = "t4ka3_suspend")
    /\ OpEvents(t4ka3_suspend) = <<[kind |-> "byte", addr |-> 256, val |-> 0]>>

C6_Witness ==
    /\ CallDone /\ DisableFromStreaming
    /\ trace[2].ret # 0
    /\ trace[3].ev = "pm_runtime_put"

(***************************************************************************)
(* Delay entries of a register program.                                    *)
(***************************************************************************)
\* C11: whenever a sleep has been started, everything put on the bus up to
\* and including it is exactly what the entries up to and including that
\* delay entry ask for (nothing of them is still buffered, nothing later was
\* sent early); what follows on the bus comes from later entries only, so no
\* transfer holds bytes from both sides of a delay.
C11_DelayIsBarrier ==
    /\ IsPrefix(WireEvents(wire), OpEvents(reglist))
    /\ \A p \in 1..Len(wire) :
          wire[p].kind = "sleep" =>
              \E d \in 1..Len(reglist) :
                  /\ IsDelay(reglist[d])
                  /\ WireEvents(SubSeq(wire, 1, p)) = OpEvents(SubSeq(reglist, 1, d))
    /\ (wpc = "loop" /\ next > 1 /\ IsDelay(reglist[next - 1])) =>
          /\ ctrl.index = 0
          /\ wire # <<>>
          /\ wire[Len(wire)].kind = "sleep"

\* A finished run over contiguous addresses, at most 28 bytes, with a delay
\* in the middle: two transfers around the sleep.
C11_Witness ==
    /\ WraDoneOk
    /\ HasDelay(reglist)
    /\ GapCount(WriteOps(reglist)) = 0
    /\ TotalBytes(WriteOps(reglist)) <= 28
    /\ Len(wire) = 3
    /\ wire[1].kind = "xfer" /\ wire[2].kind = "sleep" /\ wire[3].kind = "xfer"
    /\ BurstAddr(wire[3]) = BurstAddr(wire[1]) + BurstLen(wire[1])

(***************************************************************************)
(* Single register accesses.                                               *)
(***************************************************************************)
\* An attempt went through when every message of the transfer did.
TrySucceeded(op, r) == r = NumMsg(op)
RegDone == rpc = "done"

\* C12: a register read or write that passed its width test makes at most 5
\* transfers and none after one that went through; once it has returned, it
\* returned 0 exactly when its last transfer went through, and an error
\* (-EIO from the write, -EIO or the adapter's errno from the read) exactly
\* when it made 5 transfers and all of them failed.
C12_RetryFiveTimes ==
    (rpc \in {"loop", "done"} /\ ~LenRejected(rop, rlen)) =>
        /\ Len(rtries) <= RetryCount
        /\ \A i \in 1..(Len(rtries) - 1) : ~TrySucceeded(rop, rtries[i])
        /\ RegDone =>
            /\ Len(rtries) >= 1
            /\ rret = 0 <=> TrySucceeded(rop, rtries[Len(rtries)])
            /\ rret # 0 <=> (/\ Len(rtries) = RetryCount
                             /\ \A i \in 1..Len(rtries) : ~TrySucceeded(rop, rtries[i]))
            /\ rret # 0 => rret < 0
            /\ (rret # 0 /\ rop = "write") => rret = 0 - EIO
            /\ (rret # 0 /\ rop = "read") => rret \in {0 - EIO, 0 - EREMOTEIO}

\* A read whose five transfers all failed.
C12_Witness ==
    /\ RegDone /\ rop = "read" /\ rlen = T4KA3_16BIT
    /\ Len(rtries) = RetryCount
    /\ \A i \in 1..Len(rtries) : ~TrySucceeded(rop, rtries[i])
    /\ rret # 0

\* C13: a register read or write called with a width other than 1 or 2
\* returns -EINVAL without having made a transfer.
C13_BadWidthRejected ==
    (RegDone /\ rlen \notin {T4KA3_8BIT, T4KA3_16BIT}) =>
        (rret = 0 - EINVAL /\ rtries = <<>>)

(***************************************************************************)
(* Exposure and gain.                                                      *)
(***************************************************************************)
ExpDone == epc = "done"
ExpFailed == \E i \in 1..Len(ewrites) : ewrites[i].ret # 0
Clamp(v, lo, hi) == IF v < lo THEN lo ELSE IF v > hi THEN hi ELSE v
WritesTo(reg) == {i \in 1..Len(ewrites) : ewrites[i].reg = reg}

C15_FrameLengthKept ==
    \A i \in WritesTo(T4KA3_REG_FRAME_LENGTH_LINES) :
        LET need == Clamp(eargs.coarse_itg, 1, 65529) + 6
        IN  ewrites[i].val = IF eentry.fll < need THEN need ELSE eentry.fll

\* C16: a call that returned 0 issued exactly seven writes: 0x0340, 0x0202,
\* 0x0234, 0x020e, 0x0210, 0x0212, 0x0214 in this order, all successful, the
\* last four carrying the requested digital gain; at any moment the writes
\* issued so far are the beginning of that list.
C16_SevenWritesInOrder ==
    LET order == <<832, 514, 564, 526, 528, 530, 532>>
    IN  /\ Len(ewrites) <= 7
        /\ \A i \in 1..Len(ewrites) : ewrites[i].reg = order[i]
        /\ (ExpDone /\ eret = 0) =>
              /\ Len(ewrites) = 7
              /\ \A i \in 1..7 : ewrites[i].ret = 0
              /\ \A i \in 4..7 : ewrites[i].val = eargs.digitalgain

C16_Witness ==
    /\ ExpDone /\ eret = 0 /\ Len(ewrites) = 7
    /\ eargs.digitalgain = 65535 /\ ewrites[7].val = 65535

\* C17: a failed write is the last write of its call; the call returns that
\* write's error; coarse_itg, gain and digital_gain differ from their values
\* on entry only when all seven writes went through.
C17_FailureAborts ==
    /\ \A i \in 1..Len(ewrites) : ewrites[i].ret # 0 => i = Len(ewrites)
    /\ (ExpDone /\ ExpFailed) =>
          (eret # 0 /\ eret = ewrites[Len(ewrites)].ret)
    /\ (epc # "off" /\ (ExpFailed \/ Len(ewrites) < 7)) =>
          /\ coarse_itg = eentry.coarse_itg
          /\ gain = eentry.gain
          /\ digital_gain = eentry.digital_gain

\* The seventh write failed after six went through; nothing was cached.
C17_Witness ==
    /\ ExpDone /\ Len(ewrites) = 7 /\ ewrites[7].ret # 0 /\ eret # 0
    /\ eargs.coarse_itg = 2490 /\ coarse_itg = 2000 /\ eentry.coarse_itg = 2000
    /\ fll = 2496

(***************************************************************************)
(* Flip controls and the Bayer order (SpecDev).                             *)
(***************************************************************************)
\* The register reads and writes among events.
BusOps(events) ==
    {i \in 1..Len(events) : events[i].ev \in {"read_reg", "write_reg"}}

\* C18: whenever streaming = 1, a vflip or hflip set that reaches the
\* driver's handler returns -EBUSY, does no register read or write, and
\* leaves flip and format.code as they were.
C18_FlipBusyWhileStreaming ==
    [][\A id \in FlipIds, v \in {0, 1}, failAt \in 0..2 :
         (streaming = 1 /\ v # ctrls[id].cur /\ FlipCtrlCall(id, v, failAt)) =>
            LET r == CtrlResult(id, pm_runtime_get_if_in_use(usage_count, rpm_status),
                                streaming, failAt)
            IN  /\ r.ret = 0 - EBUSY
                /\ BusOps(r.events) = {}
                /\ flip' = flip
                /\ format'.code = format.code]_vars

\* The Bayer order the specification gives for each (vflip, hflip).
BayerOrderOf(v, h) ==
    CASE v = 0 /\ h = 0 -> "GRBG"
      [] v = 0 /\ h = 1 -> "RGGB"
      [] v = 1 /\ h = 0 -> "BGGR"
      [] v = 1 /\ h = 1 -> "GBRG"

\* C19: for each (vflip, hflip) the Bayer order is GRBG for (0,0), RGGB for
\* (0,1), BGGR for (1,0) and GBRG for (1,1): in t4ka3_set_bayer_order, which
\* reads entry vflip + 2*hflip of t4ka3_hv_flip_bayer_order, in
\* t4ka3_bayer_order_mapping[vflip][hflip], and in every format.code the
\* driver computed from a pair of flip values.
C19_BayerOrderTable ==
    /\ \A v \in {0, 1}, h \in {0, 1} :
          /\ t4ka3_set_bayer_order(v, h) = BayerOrderOf(v, h)
          /\ t4ka3_set_bayer_order(v, h) = t4ka3_hv_flip_bayer_order[v + 2 * h + 1]
          /\ t4ka3_bayer_order_mapping[v + 1][h + 1] = BayerOrderOf(v, h)
    /\ format.code = BayerOrderOf(bayer_in.vflip, bayer_in.hflip)
    /\ pad_pc = "filled" => pad_fmt.code = BayerOrderOf(pad_fmt.vflip, pad_fmt.hflip)

\* Both flips set and committed while the sensor is idle, and the code
\* recomputed from them.
C19_Witness ==
    /\ pc = "idle"
    /\ ctrls.vflip.cur = 1 /\ ctrls.hflip.cur = 1
    /\ bayer_in = [vflip |-> 1, hflip |-> 1]
    /\ format.code = "GBRG"

\* C20: whenever no operation is in progress, format.code is the table entry
\* for the committed (vflip, hflip) control values.
C20_CodeMatchesFlips ==
    (pc = "idle" /\ pad_pc = "idle" /\ input_lock = "free") =>
        format.code = t4ka3_set_bayer_order(ctrls.vflip.cur, ctrls.hflip.cur)

(***************************************************************************)
(* Mode selection and set format (SpecFmt).                                 *)
(***************************************************************************)
CatalogIdx == 0..(N_RES - 1)
CatalogDims == {t4ka3_res_preview[i + 1] : i \in CatalogIdx}
Covers(e, w, h) == e.width >= w /\ e.height >= h
TryDone == mpc = "set"

\* C22: the mode __t4ka3_try_mbus_fmt leaves in the caller's format, and the
\* entry nearest_resolution_index returns, is at least as large as the request
\* in both dimensions; only when no catalog entry is that large is the mode
\* the largest entry, 3280x2464, instead.
C22_NeverSmaller ==
    /\ TryDone =>
          /\ mfmt \in CatalogDims
          /\ \/ Covers(mfmt, mreq.width, mreq.height)
             \/ /\ ~ \E e \in CatalogDims : Covers(e, mreq.width, mreq.height)
                /\ mfmt = [width |-> T4KA3_RES_WIDTH_MAX, height |-> T4KA3_RES_HEIGHT_MAX]
    /\ (mdist.called /\ mdist.idx # 0 - 1) =>
          Covers(t4ka3_res_preview[mdist.idx + 1], mdist.w, mdist.h)

\* A request between two entries for which an entry other than the largest is
\* chosen.
C22_Witness ==
    /\ TryDone
    /\ mreq.width = 1920 /\ mreq.height = 1080
    /\ mfmt = [width |-> 1936, height |-> 1096]

\* The width and height ratios of entry i for a request, in 8192-scaled fixed
\* point, and the aspect-ratio mismatch computed from them.
WRatio(i, w) == (t4ka3_res_preview[i + 1].width * 8192) \div w
HRatio(i, h) == (t4ka3_res_preview[i + 1].height * 8192) \div h
Mismatch(i, w, h) == abs(Shl13Div(WRatio(i, w), HRatio(i, h)) - 8192)
Candidate(i, w, h) ==
    /\ w > 0 /\ h > 0
    /\ Covers(t4ka3_res_preview[i + 1], w, h)
    /\ Mismatch(i, w, h) <= LARGEST_ALLOWED_RATIO_MISMATCH
RatioSum(i, w, h) == WRatio(i, w) + HRatio(i, h)

\* C23: when some catalog entry is a candidate for the request,
\* nearest_resolution_index returns the candidate with the least sum of the
\* two ratios, the lowest index among equals; and it never returns an entry
\* that is not a candidate.
C23_MinimalCandidate ==
    mdist.called =>
        LET C == {i \in CatalogIdx : Candidate(i, mdist.w, mdist.h)}
        IN  /\ mdist.idx # 0 - 1 => mdist.idx \in C
            /\ C # {} =>
                 /\ mdist.idx \in C
                 /\ \A j \in C :
                      \/ RatioSum(mdist.idx, mdist.w, mdist.h) < RatioSum(j, mdist.w, mdist.h)
                      \/ /\ RatioSum(mdist.idx, mdist.w, mdist.h) = RatioSum(j, mdist.w, mdist.h)
                         /\ mdist.idx <= j

\* C24: __t4ka3_try_mbus_fmt never faults, whatever the request, and leaves
\* the dimensions of one catalog entry, which the request determines.
C24_TotalDeterministic ==
    /\ mpc # "fault"
    /\ TryDone =>
          /\ mfmt \in CatalogDims
          /\ LET r == __t4ka3_try_mbus_fmt(mreq.width, mreq.height)
             IN  mfmt = [width |-> r.width, height |-> r.height]

\* C28: when a set-format request for the active format has gone through
\* __t4ka3_set_mbus_fmt, the active format has the width and height of a
\* catalog entry.
C28_ActiveFormatInCatalog ==
    [][(FmtSet /\ mreq.which = "ACTIVE") => mformat' \in CatalogDims]_vars

(***************************************************************************)
(* Streaming and the power reference (Spec).                                *)
(***************************************************************************)
\* C27: whenever no t4ka3_s_stream call is in progress and streaming = 1,
\* the driver holds the power reference its enable acquired: the usage count
\* is not zero and the device is not suspended.
C27_StreamingHoldsPower ==
    (pc = "idle" /\ streaming = 1) => (usage_count >= 1 /\ rpm_status = "active")

\* The events of t4ka3_recovery in the running (or last) t4ka3_s_stream call,
\* and its register writes by what they write.
RecIdx == {i \in 1..Len(trace) : trace[i].fn = "t4ka3_recovery"}
RecStarts == {i \in RecIdx : trace[i].ev = "pm_runtime_put"}
IsRecWrite(e) == e.fn = "t4ka3_recovery" /\ e.ev \in {"write_reg_array", "write_reg"}
RecWrites == SelectSeq(trace, IsRecWrite)
WriteName(e) == IF e.ev = "write_reg" THEN "orientation" ELSE e.arg
RecProgram == <<"t4ka3_param_hold", "orientation", "res->regs", "t4ka3_param_update">>
RecSucceeded == Len(RecWrites) = Len(RecProgram) /\ RecWrites[Len(RecProgram)].ret = 0

\* C25: in a stream-enable call recovery starts at most once and only right
\* after a failed t4ka3_detect; its writes are, in order, t4ka3_param_hold,
\* the orientation register with dev->flip, the mode's registers,
\* t4ka3_param_update, each only after the one before succeeded; a call whose
\* recovery failed ends with streaming = 0 and the usage count it was entered
\* with; after a successful recovery the next bus operation is the write of
\* t4ka3_streaming.
C25_RecoveryOnceInOrder ==
    /\ Cardinality(RecStarts) <= 1
    /\ \A i \in RecIdx :
        /\ enable = 1
        /\ i > 1
        /\ \/ trace[i - 1].fn = "t4ka3_recovery"
           \/ trace[i - 1].ev = "t4ka3_detect" /\ trace[i - 1].ret # 0
    /\ \A i \in RecStarts : trace[i - 1].ev = "t4ka3_detect"
    /\ Len(RecWrites) <= Len(RecProgram)
    /\ \A i \in 1..Len(RecWrites) :
        /\ WriteName(RecWrites[i]) = RecProgram[i]
        /\ i < Len(RecWrites) => RecWrites[i].ret = 0
        /\ (pc # "idle" /\ RecWrites[i].ev = "write_reg") => RecWrites[i].val = flip
    /\ (pc = "idle" /\ RecStarts # {} /\ ~RecSucceeded) =>
        (streaming = 0 /\ usage_count = entry.usage_count)
    /\ RecSucceeded =>
        \A i \in RecIdx :
            (trace[i].ev = "write_reg_array" /\ trace[i].arg = "t4ka3_param_update") =>
                /\ pc = "idle" => i < Len(trace)
                /\ i < Len(trace) =>
                    /\ trace[i + 1].fn = "t4ka3_s_stream"
                    /\ trace[i + 1].ev = "write_reg_array"
                    /\ trace[i + 1].arg = "t4ka3_streaming"

\* A recovery that restored a non-zero orientation and ended streaming.
C25_Witness ==
    /\ pc = "idle"
    /\ RecSucceeded
    /\ streaming = 1
    /\ \E i \in 1..Len(RecWrites) : RecWrites[i].ev = "write_reg" /\ RecWrites[i].val # 0

\* A recovery that failed.
C25_WitnessFailed ==
    /\ pc = "idle"
    /\ RecStarts # {}
    /\ ~RecSucceeded
    /\ Len(RecWrites) >= 1

\* A step in which t4ka3_s_stream (or t4ka3_recovery, t4ka3_detect under it)
\* uses the bus.
IsStreamBusEvent(e) ==
    /\ e.fn \in {"t4ka3_s_stream", "t4ka3_recovery"}
    /\ e.ev \in {"write_reg_array", "write_reg", "t4ka3_detect"}
StreamBusStep ==
    /\ trace' # trace
    /\ Len(trace') >= 1
    /\ IsStreamBusEvent(trace'[Len(trace')])

\* A step inside a region that holds input_lock: t4ka3_s_stream between its
\* lock and unlock, or one of the calls taken in one step from lock to unlock.
LockedStep ==
    \/ input_lock = "held"
    \/ RecFlipCtrl
    \/ FmtTry
    \/ FmtSet
    \/ SetExposureCommit

\* C26: no bus transfer of another operation comes between two transfers of
\* one t4ka3_init call, and streaming, fmt_idx, format, flip, coarse_itg and
\* gain only change in steps that hold input_lock.
C26_NoInterleavingLockedWrites ==
    [][/\ (ipc = "write" /\ iwrites >= 1) => ~StreamBusStep
       /\ (\/ streaming' # streaming
           \/ fmt_idx' # fmt_idx
           \/ mformat' # mformat
           \/ flip' # flip
           \/ coarse_itg' # coarse_itg
           \/ gain' # gain) => LockedStep]_vars

\* In a sequence of events: the in-use tests of the vblank handler, its
\* frame-length-lines writes, the exposure range updates, the writes that
\* went through.
VblankCheckIdx(events) ==
    {k \in 1..Len(events) :
        events[k].ev = "pm_runtime_get_if_in_use" /\ events[k].arg = "vblank"}
FllWriteIdx(events) ==
    {k \in 1..Len(events) :
        /\ events[k].fn = "t4ka3_s_ctrl"
        /\ events[k].ev = "write_reg"
        /\ events[k].arg = T4KA3_REG_FRAME_LENGTH_LINES}
RangeIdx(events) == {k \in 1..Len(events) : events[k].ev = "modify_range"}
WrittenIdx(events) ==
    {k \in 1..Len(events) : events[k].ev = "write_reg" /\ events[k].ret = 0}

\* Every in-use test and frame-length-lines write of a vblank update with
\* value v comes after a successful update of the exposure maximum to
\* format.height + v - 6.
RangeFirst(events, v) ==
    \A k \in VblankCheckIdx(events) \cup FllWriteIdx(events) :
        \E j \in RangeIdx(events) :
            /\ j < k
            /\ events[j].ret = 0
            /\ events[j].val = format.height + v - T4KA3_COARSE_INTEGRATION_TIME_MARGIN

\* C21: a vblank update first sets the exposure maximum to format.height +
\* vblank - 6 and clamps the exposure value to it, before the in-use test and
\* before the frame-length-lines write, powered or not; when that update
\* fails the call returns its error, has written no register and has not
\* reached the in-use test.  The same holds for the vblank replay inside
\* t4ka3_s_stream.
C21_ExposureRangeFirst ==
    /\ (cpc = "ran" /\ creq.id = "vblank") =>
        /\ Len(clog) >= 1
        /\ clog[1].ev = "modify_range"
        /\ clog[1].val = format.height + creq.val - T4KA3_COARSE_INTEGRATION_TIME_MARGIN
        /\ exposure.max = format.height + creq.val - T4KA3_COARSE_INTEGRATION_TIME_MARGIN
        /\ RangeFirst(clog, creq.val)
        /\ clog[1].ret = 0 =>
            /\ exposure.val <= exposure.max
            /\ VblankCheckIdx(clog) # {}
        /\ clog[1].ret # 0 =>
            /\ cret = clog[1].ret
            /\ WrittenIdx(clog) = {}
            /\ FllWriteIdx(clog) = {}
            /\ VblankCheckIdx(clog) = {}
    /\ pc # "idle" => RangeFirst(trace, vblank)

\* A vblank update on a sensor in use that lowered the exposure value, wrote
\* it and then wrote frame-length-lines.
C21_Witness ==
    /\ cpc = "ran"
    /\ creq.id = "vblank"
    /\ creq.in_use
    /\ cret = 0
    /\ exposure.val = exposure.max
    /\ coarse_reg = exposure.val
    /\ fll = format.height + creq.val
    /\ Cardinality(WrittenIdx(clog)) = 2

\* A vblank update on a sensor that is not in use, and one whose exposure
\* write failed.
C21_WitnessUnpowered ==
    /\ cpc = "ran"
    /\ creq.id = "vblank"
    /\ ~creq.in_use
    /\ exposure.val = exposure.max
    /\ exposure.max = format.height + creq.val - T4KA3_COARSE_INTEGRATION_TIME_MARGIN
C21_WitnessFailed ==
    /\ cpc = "ran"
    /\ creq.id = "vblank"
    /\ clog[1].ret # 0

\* The register a control is written to and the value its write sends.
CtlReg(id) ==
    CASE id = "vblank" -> T4KA3_REG_FRAME_LENGTH_LINES
      [] id = "exposure" -> T4KA3_REG_COARSE_INTEGRATION_TIME
      [] id = "test_pattern" -> T4KA3_REG_TEST_PATTERN_MODE
      [] OTHER -> T4KA3_REG_IMG_ORIENTATION
CtlRegValue(id) == IF id = "vblank" THEN format.height + vblank ELSE CtlValue(id)

\* In trace: the register programs that went through, by name.
ProgramIdx(name) ==
    {k \in 1..Len(trace) :
        trace[k].ev = "write_reg_array" /\ trace[k].arg = name /\ trace[k].ret = 0}

\* Control id's value was written between the group hold and its release.
ReplayedInHold(id) ==
    \E h \in ProgramIdx("t4ka3_param_hold"), u \in ProgramIdx("t4ka3_param_update") :
        \E k \in (h + 1)..(u - 1) :
            /\ trace[k].ev = "write_reg"
            /\ trace[k].arg = CtlReg(id)
            /\ trace[k].ret = 0
            /\ trace[k].val = CtlRegValue(id)

C29_WitnessSet ==
    /\ cpc = "ran"
    /\ ~creq.in_use
    /\ creq.id = "exposure"
    /\ exposure.val = 100
    /\ coarse_reg = 0

\* C30: on a sensor in use, as long as every t4ka3_set_exposure call and every
\* control set request so far succeeded, the last value written to the
\* coarse-integration-time register plus 6 is at most the last value written
\* to the frame-length-lines register whenever none of them is under way.
C30_CoarseFitsFrameLength ==
    (epc \in {"off", "done"} /\ cpc = "idle" /\ allok) =>
        coarse_reg + T4KA3_COARSE_INTEGRATION_TIME_MARGIN <= fll

(***************************************************************************)
(* Power references over sequences of t4ka3_s_stream calls.                *)
(***************************************************************************)
\* The pm_runtime_get_sync / pm_runtime_put calls t4ka3_s_stream and
\* t4ka3_recovery make themselves (t4ka3_s_ctrl pairs its own get and put).
IsStreamPm(e, ev) == e.fn \in {"t4ka3_s_stream", "t4ka3_recovery"} /\ e.ev = ev
Acquisitions(events) ==
    Len(SelectSeq(events, LAMBDA e : IsStreamPm(e, "pm_runtime_get_sync")))
Releases(events) ==
    Len(SelectSeq(events, LAMBDA e : IsStreamPm(e, "pm_runtime_put")))

\* C31: over any sequence of t4ka3_s_stream calls with failures injected, the
\* driver never performs more pm_runtime_put calls than pm_runtime_get_sync
\* calls: the references held when the running (or last) call was entered,
\* plus the acquisitions of that call, cover its releases.
C31_ReleasesWithinAcquisitions ==
    entry.usage_count + Acquisitions(trace) >= Releases(trace)

\* C32: when t4ka3_t_hflip, t4ka3_t_vflip, __t4ka3_set_mbus_fmt or
\* t4ka3_recovery (inside t4ka3_s_stream) has returned, no group hold it
\* asserted is left without a group-hold release write.
C32_GroupHoldReleased ==
    (revision = "recovery" /\ pc = "idle" /\ mpc = "idle") => ~hold_open

\* C33: a register program is only aborted after a burst transfer was tried
\* five times, like the transfer of t4ka3_write_reg: when
\* t4ka3_write_reg_array returns an error the bus saw RetryCount failed
\* transfers of the same bytes at the end.
C33_FlushRetried ==
    (wpc = "done" /\ err # 0) =>
        /\ Len(wire) >= RetryCount
        /\ \A i \in (Len(wire) - RetryCount + 1)..Len(wire) :
              /\ wire[i].kind = "xfer"
              /\ ~wire[i].ok
              /\ wire[i].bytes = wire[Len(wire)].bytes

\* C34: an ioctl request whose integration time (analog gain) is above 0xFFFF
\* has the coarse-integration-time register written with 0xFFF9 (the
\* global-gain register with 0x07FF).
C34_WideRequestClampedToMax ==
    "ioctl" \in DOMAIN eargs =>
        /\ eargs.ioctl.integration_time > 65535 =>
              \A i \in WritesTo(T4KA3_REG_COARSE_INTEGRATION_TIME) :
                  ewrites[i].val = T4KA3_MAX_EXPOSURE_SUPPORTED
        /\ eargs.ioctl.again > 65535 =>
              \A i \in WritesTo(T4KA3_REG_GLOBAL_GAIN) :
                  ewrites[i].val = T4KA3_MAX_GLOBAL_GAIN_SUPPORTED

\* C35: a finished stream-enable from Stopped in which the power acquisition
\* did not fail (pm_runtime_get_sync returned 0, or 1 because the device was
\* still active) and no register access or detection failed has set
\* streaming = 1 and returned 0.
C35_EnableSucceedsWhenActive ==
    (/\ CallDone /\ EnableFromStopped
     /\ \A i \in 1..Len(trace) :
           IF trace[i].ev = "pm_runtime_get_sync" THEN trace[i].ret >= 0
           ELSE IsPm(trace[i]) \/ trace[i].ret = 0)
        => (streaming = 1 /\ retval = 0)

\* C36: while the stream that the last t4ka3_s_stream call started is on,
\* the active mode and format are those of that call: the ones in force when
\* it was entered, whose register program it wrote.
C36_FormatFixedWhileStreaming ==
    (CallDone /\ EnableFromStopped /\ retval = 0 /\ streaming = 1) =>
        format.height = entry.height

\* A step of a t4ka3_set_pad_format request, and the `which' of that request.
\* No call that takes input_lock is running: t4ka3_s_stream, t4ka3_set_exposure,
\* both set-format entry points and __t4ka3_try_mbus_fmt are outside their
\* bodies; a call that a fault ended is not running any more.
NoLockedCall ==
    /\ pc = "idle"
    /\ epc = "off"
    /\ pad_pc = "idle"
    /\ mpc \in {"idle", "fault"}

\* C37: every entry point that takes input_lock releases it on every path out
\* of it, so the lock is free whenever none of them is running.
C37_LockReleasedOnEveryPath == NoLockedCall => input_lock = "free"

PadStep == pad_pc' # pad_pc \/ pad_fmt' # pad_fmt
PadStepWhich == IF pad_pc = "idle" THEN pad_fmt'.which ELSE pad_fmt.which

\* C38: a t4ka3_set_pad_format request with which = TRY returns after filling
\* the caller's format with the dimensions of a catalog mode and the Bayer
\* code of the flip controls; it takes no lock, writes no register and
\* leaves the active mode and format, the vblank value and range, the
\* exposure value and range and the cached exposure and gain as they were.
C38_TryChangesNothing ==
    [][(PadStep /\ PadStepWhich = "TRY") =>
          /\ pad_pc' = "idle"
          /\ pad_fmt'.height \in PadHeights
          /\ pad_fmt'.code = t4ka3_set_bayer_order(ctrls.vflip.val, ctrls.hflip.val)
          /\ UNCHANGED <<format, bayer_in, vblank, vblank_max, exposure, test_pattern,
                         ctrls, flip, coarse_itg, gain, digital_gain, fll,
                         coarse_reg, clog, input_lock, trace>>]_vars

\* A TRY request has returned with a mode that is not the active one, on a
\* streaming sensor.
C38_Witness ==
    /\ pad_pc = "idle"
    /\ "which" \in DOMAIN pad_fmt
    /\ pad_fmt.which = "TRY"
    /\ pad_fmt.height # format.height
    /\ streaming = 1

\* C39: a position reported by touchscreen_report_pos or stored by
\* touchscreen_set_mt_pos, for a raw position inside the configured ranges,
\* has each coordinate inside the minimum..maximum which the parse call left
\* on the axis the coordinate goes to, for every inversion and swap setting.
C39_ReportedInsideAdvertised ==
    ts_pos.set =>
        /\ ts_pos.x \in absinfo.x.minimum..absinfo.x.maximum
        /\ ts_pos.y \in absinfo.y.minimum..absinfo.y.maximum

C39_Witness ==
    /\ ts_pos.set
    /\ prop.invert_x /\ prop.swap_x_y
    /\ ts_orig.x.minimum > 0
    /\ ts_orig.x.maximum > ts_orig.y.maximum
    /\ ts_pos.raw.x = ts_orig.x.minimum
    /\ ts_pos.y = absinfo.y.maximum

\* C40: a tps68470_brightness_get that follows a successful
\* tps68470_brightness_set(b) on the same LED returns b, and a
\* tps68470_brightness_set on LED B that returned an error has left
\* brightness_a and brightness_b as they were.
C40_GetReturnsSetAndFailureKeeps ==
    /\ (led_get.set /\ led_set.set /\ led_set.ret = 0 /\ led_get.name = led_set.name) =>
          led_get.val = led_set.brightness
    /\ (led_set.set /\ led_set.name = "tps68470-iledb" /\ led_set.ret # 0) =>
          (brightness_a = led_set.a /\ brightness_b = led_set.b)
====
